---- MODULE Spec2Model ----
(***************************************************************************)
(* Model of the LP aggregation RFQ core: the quote-locking streamer        *)
(* (src/src/core/quote_streamer.py) driving the aggregator                 *)
(* (src/src/core/lp_aggregator.py).                                        *)
(*                                                                         *)
(* Time is wall-clock milliseconds.  Prices are integers; a client price   *)
(* is kept in units of 1/10000 of the provider price unit so that the      *)
(* markup (basis points) is exact.  Arithmetic is exact, i.e. the model    *)
(* abstracts from binary floating-point rounding, except in _round_amount, *)
(* where floor / ceil turn the rounding error of the float product         *)
(* amount * multiplier into a whole unit (see RoundAmount).                *)
(*                                                                         *)
(* stream_quotes is a coroutine on a single-threaded event loop: the code  *)
(* between two awaits runs atomically, so there is one action per await    *)
(* (the fan-out returning, the sleep ending).  stop() can run while the    *)
(* coroutine is suspended, or from inside the update handler.              *)
(***************************************************************************)
EXTENDS Integers, Sequences, FiniteSets, TLC

\* ---------------------------------------------------------------- bounds
NumLPs == 2
MaxTicks == 5

\* ------------------------------------------------------ program constants
PollIntervalMs == 1000
MarkupBps == 5
ValidityBufferMs == 2000
MinValidityMs == 3000
BpsDenominator == 10000

\* ------------------------------------------------------------ input sets
AllNames == <<"LP1", "LP2", "LP3", "LP4">>
lps == SubSeq(AllNames, 1, NumLPs)
LPNames == {lps[i] : i \in 1..Len(lps)}
\* Provider prices and the improvement threshold (bps) the streamer is built
\* with.  With 1000 bps the prices hit the threshold boundary exactly (10 -> 9
\* for BUY, 10 -> 11 for SELL), fall short of it (11 -> 10, 9 -> 10) and pass
\* beyond it (11 -> 9, 9 -> 11), and every product stays below 2^31.
Prices == {9, 10, 11}
ThresholdBpsChoices == {1000}
\* validity_seconds of provider quotes (ms); the client validity is then 3000
LPValidities == {1000}
Sides == {"BUY", "SELL"}
BaseAsset == "BTC"
QuoteAsset == "USDT"
\* target assets of the streamed requests (the streamer never reads the target;
\* sessions on the base asset cover premium (BUY) and discount (SELL))
StreamTargets == {BaseAsset}
DurationChoices == {<<>>, <<2 * PollIntervalMs>>}
MaxTime == MaxTicks * PollIntervalMs
Delays == {0, PollIntervalMs}

None == "None"
NoQuote == [none |-> TRUE]
NoEvent == [none |-> TRUE]

\* What one provider call can produce: a quote, none, or an exception.
Responses ==
    {[kind |-> "none"], [kind |-> "error"]}
        \cup [kind : {"quote"}, price : Prices, validity_seconds : LPValidities]

Max(a, b) == IF a >= b THEN a ELSE b

\* -------------------------------------------------------------- models.py
\* LPQuote as built by a provider that answers at time t.
LPQuote(name, resp, t) ==
    [lp_name |-> name, price |-> resp.price,
     validity_seconds |-> resp.validity_seconds, timestamp |-> t]

\* LPQuote.is_expired at time t: (time.time() - self.timestamp) > self.validity_seconds
LPQuoteIsExpired(q, t) == (t - q.timestamp) > q.validity_seconds

\* AggregatedQuote.time_remaining at time t.
TimeRemaining(q, t) == Max(0, q.validity_seconds - (t - q.created_at))

\* datetime.now() at the instant t of the model (instants are whole
\* milliseconds), in microseconds.
MicrosPerMilli == 1000
NowMicros(t) == t * MicrosPerMilli

\* AggregatedQuote.generate_id: 'Q' and the local time formatted
\* '%Y%m%d-%H%M%S-%f', cut to 19 characters, which keeps 3 of the 6
\* microsecond digits.  The id is the time of the call in milliseconds.
GenerateId(micros) == micros \div MicrosPerMilli

\* ------------------------------------------------------- lp_aggregator.py
\* Mutant: the first exception ends the collection of results.
RECURSIVE ValidQuotes_AbortOnError(_, _, _)
ValidQuotes_AbortOnError(names, r, t) ==
    IF names = <<>> THEN <<>>
    ELSE LET resp == r[Head(names)]
         IN  IF resp.kind = "error" THEN <<>>
             ELSE IF resp.kind # "quote" THEN ValidQuotes_AbortOnError(Tail(names), r, t)
             ELSE <<LPQuote(Head(names), resp, t)>>
                      \o ValidQuotes_AbortOnError(Tail(names), r, t)

\* valid_quotes: the quotes of the providers that returned one, in the
\* order of the fan-out list.
RECURSIVE ValidQuotes(_, _, _)
ValidQuotes(names, r, t) ==
    IF names = <<>> THEN <<>>
    ELSE LET rest == ValidQuotes(Tail(names), r, t)
             resp == r[Head(names)]
         IN  IF resp.kind # "quote" THEN rest
             ELSE <<LPQuote(Head(names), resp, t)>> \o rest

\* Mutant: the lowest price wins for both sides.
SelectBest_AlwaysMin(quotes, side) ==
    LET i == CHOOSE k \in 1..Len(quotes) :
                 /\ \A j \in 1..Len(quotes) : quotes[j].price >= quotes[k].price
                 /\ \A j \in 1..(k - 1) : quotes[k].price < quotes[j].price
    IN  quotes[i]

\* min / max with key: the first element holding the extreme price.
SelectBest(quotes, side) ==
    LET better(a, b) == IF side = "BUY" THEN a < b ELSE a > b
        i == CHOOSE k \in 1..Len(quotes) :
                 /\ \A j \in 1..Len(quotes) : ~better(quotes[j].price, quotes[k].price)
                 /\ \A j \in 1..(k - 1) : better(quotes[k].price, quotes[j].price)
    IN  quotes[i]

\* Mutant: the side alone decides, whatever the target asset.
ClientPrice_SideOnly(price, req) ==
    IF req.side = "BUY" THEN price * (BpsDenominator + MarkupBps)
                        ELSE price * (BpsDenominator - MarkupBps)

\* client_price (in 1/10000 units): premium or discount by the 2x2 matrix.
ClientPrice(price, req) ==
    IF req.target_asset = req.base_asset
    THEN IF req.side = "BUY" THEN price * (BpsDenominator + MarkupBps)
                             ELSE price * (BpsDenominator - MarkupBps)
    ELSE IF req.side = "SELL" THEN price * (BpsDenominator + MarkupBps)
                              ELSE price * (BpsDenominator - MarkupBps)

\* Mutant: the buffer is taken off the provider validity with no minimum.
ClientValidity_NoMinimum(lp_validity) == lp_validity - ValidityBufferMs

\* client_validity = max(lp_quote.validity_seconds - self.validity_buffer, 3.0)
ClientValidity(lp_validity) == Max(lp_validity - ValidityBufferMs, MinValidityMs)

CreateAggregatedQuote(lp_quote, req, t) ==
    [quote_id |-> GenerateId(NowMicros(t)),
     client_price |-> ClientPrice(lp_quote.price, req),
     lp_price |-> lp_quote.price,
     lp_name |-> lp_quote.lp_name,
     markup_bps |-> MarkupBps,
     side |-> req.side,
     validity_seconds |-> ClientValidity(lp_quote.validity_seconds),
     created_at |-> t]

\* The common tail of get_all_quotes / get_quotes_excluding.
Aggregate(names, r, req, t) ==
    LET valid == ValidQuotes(names, r, t)
    IN  IF valid = <<>> THEN [quotes |-> <<>>, best |-> NoQuote]
        ELSE [quotes |-> valid,
              best |-> CreateAggregatedQuote(SelectBest(valid, req.side), req, t)]

\* Mutant: nothing is removed from the fan-out list.
SeqFilterNames_KeepAll(names, excluded) == names

\* [lp for lp in names if lp.get_name() != excluded]
SeqFilterNames(names, excluded) ==
    SelectSeq(names, LAMBDA n : n # excluded)

\* Mutant: the locked provider is left in the fan-out set.
CompetitorLPs_NoExclusion(excluded) == lps

\* competitor_lps of get_quotes_excluding.
CompetitorLPs(excluded) == SeqFilterNames(lps, excluded)

NamesOf(names) == {names[i] : i \in 1..Len(names)}

\* ------------------------------------------------------ quote_streamer.py
VARIABLES
    pc,               \* where stream_quotes is suspended
    now,              \* clock (ms); its origin is the start of the current stream_quotes call
    streaming,        \* self.streaming
    locked_lp_name,   \* self.locked_lp_name
    locked_quote,     \* self.locked_quote
    locked_lp_quote,  \* self.locked_lp_quote
    poll_count,       \* local poll_count
    loop_count,       \* local loop_count
    start_time,       \* local start_time
    request,          \* argument request
    duration_seconds, \* argument duration_seconds: <<>> is None, <<d>> is d ms
    auto_refresh,     \* argument auto_refresh
    improvement_threshold_bps,  \* self.improvement_threshold_bps (constructor argument)
    polled,           \* providers sent request_quote by the fan-out in flight (or the last one)
    returned,         \* (quotes, best) handed back by the fan-out that returned in the last step
    emitted,          \* the on_quote_update call made by the last step, NoEvent if none
    last_poll,        \* poll number of the last update event of this session (0: none yet)
    epoch_polls,      \* poll numbers of the update events since the last lock taken from all providers
    iter_done,        \* loop iterations of this session that have ended
    stop_called       \* stop() was called during this session

\* An LPAggregator called on its own (get_all_quotes / get_quotes_excluding).
VARIABLES
    a_lps,            \* self.lps: the names of the registered providers, in order
    a_request,        \* the caller's QuoteRequest(...): arguments and the object or exception; NoCall before
    a_call,           \* the last call: method, excluded name, request, completion order; NoCall before any
    a_called,         \* providers whose request_quote the last call invoked
    a_responses,      \* what each of them produced
    a_outcome         \* what the last call handed back: (quotes, best), or an exception

avars == <<a_lps, a_request, a_call, a_called, a_responses, a_outcome>>

\* An ExecutionManager called on its own (execute_quote), and the pipeline
\* of the three execution functions run on its own.
VARIABLES
    x_lps,            \* self.lps: the provider names that are keys of the dictionary
    x_logger,         \* self.quote_logger: "none", or how its connection behaves
    x_call,           \* the quote execute_quote was called with; NoCall before
    x_pc,             \* where execute_quote is: "idle", "await_execute_trade", "done"
    x_hedge,          \* locals exchange_side, quantity, quote_qty, once computed
    x_trade,          \* what lp.execute_trade produced: true / false or an exception
    x_steps,          \* the steps execute_quote has made so far, in order
    x_result,         \* what execute_quote handed back: a result dictionary, or an exception
    p_run             \* inputs and outputs of one run of determine_hedge_params ->
                      \* execute_simulated_trade -> calculate_pnl; NoCall before

xvars == <<x_lps, x_logger, x_call, x_pc, x_hedge, x_trade, x_steps, x_result, p_run>>

vars == <<pc, now, streaming, locked_lp_name, locked_quote, locked_lp_quote,
          poll_count, loop_count, start_time, request, duration_seconds,
          auto_refresh, improvement_threshold_bps, polled, returned, emitted,
          last_poll, epoch_polls, iter_done, stop_called, avars, xvars>>

lock == <<locked_lp_name, locked_quote, locked_lp_quote>>
args == <<request, duration_seconds, auto_refresh, improvement_threshold_bps, start_time>>

AwaitPcs == {"await_initial", "sleep", "await_competitors", "await_refresh"}
NoReturn == [none |-> TRUE]
NoCall == [none |-> TRUE]

\* Mutant: strict comparisons, so a price on the boundary is no improvement.
IsMeaningfulImprovement_Strict(new_quote, side, locked, bps) ==
    IF locked = NoQuote THEN TRUE
    ELSE LET threshold10k == locked.client_price * bps
         IN  IF side = "BUY"
             THEN new_quote.client_price * BpsDenominator
                      < locked.client_price * BpsDenominator - threshold10k
             ELSE new_quote.client_price * BpsDenominator
                      > locked.client_price * BpsDenominator + threshold10k

\* Mutant: the BUY comparison is used for both sides.
IsMeaningfulImprovement_BuyOnly(new_quote, side, locked, bps) ==
    IF locked = NoQuote THEN TRUE
    ELSE LET threshold10k == locked.client_price * bps
         IN  new_quote.client_price * BpsDenominator
                 <= locked.client_price * BpsDenominator - threshold10k

\* Mutant: the threshold is taken with the opposite sign.
IsMeaningfulImprovement_NegativeThreshold(new_quote, side, locked, bps) ==
    IF locked = NoQuote THEN TRUE
    ELSE LET threshold10k == locked.client_price * (0 - bps)
         IN  IF side = "BUY"
             THEN new_quote.client_price * BpsDenominator
                      <= locked.client_price * BpsDenominator - threshold10k
             ELSE new_quote.client_price * BpsDenominator
                      >= locked.client_price * BpsDenominator + threshold10k

\* threshold = locked.client_price * (bps / 10000); both sides of the
\* comparison are multiplied by 10000 to stay in the integers.
IsMeaningfulImprovement(new_quote, side, locked, bps) ==
    IF locked = NoQuote THEN TRUE
    ELSE LET threshold10k == locked.client_price * bps
         IN  IF side = "BUY"
             THEN new_quote.client_price * BpsDenominator
                      <= locked.client_price * BpsDenominator - threshold10k
             ELSE new_quote.client_price * BpsDenominator
                      >= locked.client_price * BpsDenominator + threshold10k

\* Mutant: `< 0` instead of `<= 0` on the unclamped remaining validity.
Expired_StrictlyNegative(q, t) == q.validity_seconds - (t - q.created_at) < 0

\* locked_quote.time_remaining() <= 0 at time t
Expired(q, t) == TimeRemaining(q, t) <= 0

\* Mutant: expiry is not checked again after the competitor poll.
ExpiredAfterPoll_NotChecked(q, t) == FALSE

\* the re-check after the competitor poll: locked_quote.time_remaining() <= 0
\* at the time t the poll returns
ExpiredAfterPoll(q, t) == Expired(q, t)

\* next((q for q in quotes if q.lp_name == name), None)
FindQuote(quotes, name) ==
    IF \E i \in 1..Len(quotes) : quotes[i].lp_name = name
    THEN quotes[CHOOSE i \in 1..Len(quotes) :
                    /\ quotes[i].lp_name = name
                    /\ \A j \in 1..(i - 1) : quotes[j].lp_name # name]
    ELSE NoQuote

\* Mutant: the frozen quote is not re-included.
DisplayQuotes_NoFrozen(competitor_quotes, frozen) == competitor_quotes

\* all_display_quotes: the competitors plus the frozen quote, when there is one
DisplayQuotes(competitor_quotes, frozen) ==
    IF frozen # NoQuote THEN competitor_quotes \o <<frozen>> ELSE competitor_quotes

\* Mutant: the increment is missing.
CompetitorPollCount_NoIncrement(n) == n

\* poll_count += 1 before a competitor poll
CompetitorPollCount(n) == n + 1

\* Mutant: the reset is missing.
RefreshPollCount_NoReset(n) == n + 1

\* poll_count = 0; poll_count += 1 before an auto-refresh poll
RefreshPollCount(n) == 0 + 1

\* the arguments of one on_quote_update call
Event(quotes, best, poll, improvement, locked) ==
    [quotes |-> quotes, best |-> best, poll |-> poll,
     improvement |-> improvement, locked |-> locked]

\* elapsed >= duration_seconds, when a duration was given
DurationElapsed(t) ==
    /\ duration_seconds # <<>>
    /\ t - start_time >= duration_seconds[1]

\* QuoteStreamer.__init__: no session yet.
StreamerIdle ==
    /\ pc = "idle"
    /\ now = 0
    /\ streaming = FALSE
    /\ locked_lp_name = None
    /\ locked_quote = NoQuote
    /\ locked_lp_quote = NoQuote
    /\ poll_count = 0
    /\ loop_count = 0
    /\ start_time = 0
    /\ request = [none |-> TRUE]
    /\ duration_seconds = <<>>
    /\ auto_refresh = FALSE
    /\ improvement_threshold_bps \in ThresholdBpsChoices
    /\ polled = {}
    /\ returned = NoReturn
    /\ emitted = NoEvent
    /\ last_poll = 0
    /\ epoch_polls = {}
    /\ iter_done = 0
    /\ stop_called = FALSE

\* LPAggregator.__init__ with the providers `lps`; no call made yet.
AggregatorIdle ==
    /\ a_request = NoCall
    /\ a_call = NoCall
    /\ a_called = {}
    /\ a_responses = <<>>
    /\ a_outcome = NoReturn

\* ExecutionManager.__init__; execute_quote not called, no pipeline run.
ExecutionIdle ==
    /\ x_call = NoCall
    /\ x_pc = "idle"
    /\ x_hedge = NoReturn
    /\ x_trade = NoReturn
    /\ x_steps = <<>>
    /\ x_result = NoReturn
    /\ p_run = NoCall

Init ==
    /\ StreamerIdle
    /\ a_lps = lps
    /\ AggregatorIdle
    /\ x_lps = LPNames
    /\ x_logger = "none"
    /\ ExecutionIdle

\* Mutant: the lock fields are not reset on entry.
ResetLock_Missing == UNCHANGED <<locked_lp_name, locked_quote, locked_lp_quote>>

\* self.locked_lp_name = None; self.locked_quote = None;
\* self.locked_lp_quote = None on entry of stream_quotes
ResetLock ==
    /\ locked_lp_name' = None
    /\ locked_quote' = NoQuote
    /\ locked_lp_quote' = NoQuote

\* stream_quotes up to its first await: reset, then fan out to all providers.
StartStream ==
    /\ pc \in {"idle", "done"}
    /\ \E side \in Sides, target \in StreamTargets,
          dur \in DurationChoices, ar \in BOOLEAN :
          /\ request' = [side |-> side, base_asset |-> BaseAsset,
                         quote_asset |-> QuoteAsset, target_asset |-> target]
          /\ duration_seconds' = dur
          /\ auto_refresh' = ar
    /\ streaming' = TRUE
    /\ ResetLock
    /\ poll_count' = 0 + 1
    /\ loop_count' = 0
    /\ now' = 0
    /\ start_time' = now'
    /\ polled' = NamesOf(lps)
    /\ pc' = "await_initial"
    /\ returned' = NoReturn
    /\ emitted' = NoEvent
    /\ last_poll' = 0
    /\ epoch_polls' = {}
    /\ iter_done' = 0
    /\ stop_called' = FALSE
    /\ UNCHANGED <<improvement_threshold_bps, avars, xvars>>

\* Mutant: the loop condition does not read the flag.
LoopHead_IgnoresFlag(s) ==
    /\ pc' = "sleep"
    /\ loop_count' = loop_count + 1
    /\ streaming' = s

\* Mutant: the next fan-out is issued without sleeping first.
LoopHead_NoSleep(s) ==
    /\ pc' = IF s THEN "await_competitors" ELSE "done"
    /\ loop_count' = IF s THEN loop_count + 1 ELSE loop_count
    /\ streaming' = s

\* `while self.streaming:` reached with self.streaming = s: the next iteration
\* begins (loop_count += 1, sleep), or the loop is left and
\* `self.streaming = False` runs.
LoopHead(s) ==
    /\ pc' = IF s THEN "sleep" ELSE "done"
    /\ loop_count' = IF s THEN loop_count + 1 ELSE loop_count
    /\ streaming' = s

\* `break`, then `self.streaming = False`
Break ==
    /\ pc' = "done"
    /\ streaming' = FALSE
    /\ UNCHANGED loop_count

\* Mutant: returns without clearing self.streaming.
AbortInitial_KeepsStreaming ==
    /\ pc' = "done"
    /\ streaming' = streaming
    /\ emitted' = NoEvent
    /\ UNCHANGED <<lock, loop_count, last_poll, epoch_polls, stop_called>>

\* no best quote on the first poll: `self.streaming = False; return`
AbortInitial ==
    /\ pc' = "done"
    /\ streaming' = FALSE
    /\ emitted' = NoEvent
    /\ UNCHANGED <<lock, loop_count, last_poll, epoch_polls, stop_called>>

\* lock the winner of a poll of all providers, call the handler with it
\* (the handler may call stop()), and go to the loop head
LockWinnerAndNotify(res, h_stop) ==
    /\ locked_lp_name' = res.best.lp_name
    /\ locked_quote' = res.best
    /\ locked_lp_quote' = FindQuote(res.quotes, res.best.lp_name)
    /\ emitted' = Event(res.quotes, res.best, poll_count, TRUE, res.best.lp_name)
    /\ last_poll' = poll_count
    /\ epoch_polls' = {poll_count}
    /\ stop_called' = (stop_called \/ h_stop)
    /\ LoopHead(streaming /\ ~h_stop)

\* get_all_quotes of the first poll returns.
InitialPollReturn ==
    /\ pc = "await_initial"
    /\ \E d \in Delays, r \in [polled -> Responses] :
          LET t == now + d
              res == Aggregate(lps, r, request, t)
          IN  /\ t <= MaxTime
              /\ now' = t
              /\ returned' = res
              /\ IF res.best = NoQuote
                 THEN AbortInitial
                 ELSE \E h_stop \in BOOLEAN : LockWinnerAndNotify(res, h_stop)
    /\ UNCHANGED <<poll_count, args, polled, iter_done, avars, xvars>>

\* An expiry check found the locked quote expired: fan out to all providers
\* again (auto_refresh) or leave the loop.
OnExpired ==
    /\ IF auto_refresh
       THEN /\ poll_count' = RefreshPollCount(poll_count)
            /\ polled' = NamesOf(lps)
            /\ pc' = "await_refresh"
            /\ UNCHANGED <<streaming, loop_count, iter_done>>
       ELSE /\ Break
            /\ iter_done' = iter_done + 1
            /\ UNCHANGED <<poll_count, polled>>
    /\ emitted' = NoEvent
    /\ UNCHANGED <<lock, last_poll, epoch_polls, stop_called>>

\* asyncio.sleep returns; expiry check before polling; competitor fan-out.
SleepDone ==
    /\ pc = "sleep"
    /\ now + PollIntervalMs <= MaxTime
    /\ now' = now + PollIntervalMs
    /\ returned' = NoReturn
    /\ IF Expired(locked_quote, now')
       THEN OnExpired
       ELSE /\ poll_count' = CompetitorPollCount(poll_count)
            /\ polled' = NamesOf(CompetitorLPs(locked_lp_name))
            /\ pc' = "await_competitors"
            /\ emitted' = NoEvent
            /\ UNCHANGED <<streaming, loop_count, iter_done, lock, last_poll,
                           epoch_polls, stop_called>>
    /\ UNCHANGED <<args, avars, xvars>>

\* Mutant: `continue` instead of `break`: the loop goes on with the expired
\* lock.
AbortRefresh_Continues ==
    /\ LoopHead(streaming)
    /\ emitted' = NoEvent
    /\ UNCHANGED <<lock, last_poll, epoch_polls, stop_called>>

\* no best quote on an auto-refresh poll: `break`, no handler call
AbortRefresh ==
    /\ Break
    /\ emitted' = NoEvent
    /\ UNCHANGED <<lock, last_poll, epoch_polls, stop_called>>

\* get_all_quotes of an auto-refresh returns.
RefreshReturn ==
    /\ pc = "await_refresh"
    /\ \E d \in Delays, r \in [polled -> Responses] :
          LET t == now + d
              res == Aggregate(lps, r, request, t)
          IN  /\ t <= MaxTime
              /\ now' = t
              /\ returned' = res
              /\ iter_done' = iter_done + 1
              /\ IF res.best = NoQuote
                 THEN AbortRefresh
                 ELSE \E h_stop \in BOOLEAN : LockWinnerAndNotify(res, h_stop)
    /\ UNCHANGED <<poll_count, args, polled, avars, xvars>>

\* Mutant: the lock is switched without calling the handler.
SwitchLock_Silent(res) ==
    /\ locked_lp_name' = res.best.lp_name
    /\ locked_quote' = res.best
    /\ locked_lp_quote' = FindQuote(res.quotes, res.best.lp_name)
    /\ emitted' = NoEvent

\* Mutant: the raw quote of the old locked provider is kept.
SwitchLock_Partial(res) ==
    /\ locked_lp_name' = res.best.lp_name
    /\ locked_quote' = res.best
    /\ locked_lp_quote' = locked_lp_quote
    /\ emitted' = Event(DisplayQuotes(res.quotes, locked_lp_quote), res.best,
                        poll_count, TRUE, res.best.lp_name)

\* Mutant: the handler is shown the raw quote of the new locked provider
\* instead of the old one's.
SwitchLock_ShowsNewFrozen(res) ==
    /\ locked_lp_name' = res.best.lp_name
    /\ locked_quote' = res.best
    /\ locked_lp_quote' = FindQuote(res.quotes, res.best.lp_name)
    /\ emitted' = Event(DisplayQuotes(res.quotes, FindQuote(res.quotes, res.best.lp_name)),
                        res.best, poll_count, TRUE, res.best.lp_name)

\* IMPROVEMENT: switch the lock to the best competitor and call the handler
\* with the competitors plus the old locked provider's quote.
SwitchLock(res) ==
    /\ locked_lp_name' = res.best.lp_name
    /\ locked_quote' = res.best
    /\ locked_lp_quote' = FindQuote(res.quotes, res.best.lp_name)
    /\ emitted' = Event(DisplayQuotes(res.quotes, locked_lp_quote), res.best,
                        poll_count, TRUE, res.best.lp_name)

\* Mutant: the handler is given the best competitor of the round, when there
\* is one, while the lock is kept.
KeepLock_PassesCompetitor(res) ==
    /\ emitted' = Event(DisplayQuotes(res.quotes, locked_lp_quote),
                        IF res.best # NoQuote THEN res.best ELSE locked_quote,
                        poll_count, FALSE, locked_lp_name)
    /\ UNCHANGED lock

\* no improvement: keep the lock and call the handler with the competitors
\* plus the frozen locked quote.
KeepLock(res) ==
    /\ emitted' = Event(DisplayQuotes(res.quotes, locked_lp_quote), locked_quote,
                        poll_count, FALSE, locked_lp_name)
    /\ UNCHANGED lock

\* get_quotes_excluding returns: expiry re-check, improvement test, update
\* event, duration check.
CompetitorsReturn ==
    /\ pc = "await_competitors"
    /\ \E d \in Delays, r \in [polled -> Responses] :
          LET t == now + d
              res == Aggregate(CompetitorLPs(locked_lp_name), r, request, t)
          IN  /\ t <= MaxTime
              /\ polled = {} => d = 0
              /\ now' = t
              /\ returned' = res
              /\ IF ExpiredAfterPoll(locked_quote, t)
                 THEN OnExpired
                 ELSE /\ IF /\ res.best # NoQuote
                            /\ IsMeaningfulImprovement(res.best, request.side, locked_quote,
                                                       improvement_threshold_bps)
                         THEN SwitchLock(res)
                         ELSE KeepLock(res)
                      /\ last_poll' = poll_count
                      /\ epoch_polls' = epoch_polls \cup {poll_count}
                      /\ iter_done' = iter_done + 1
                      /\ \E h_stop \in BOOLEAN :
                            /\ stop_called' = (stop_called \/ h_stop)
                            /\ IF DurationElapsed(t)
                               THEN Break
                               ELSE LoopHead(streaming /\ ~h_stop)
                      /\ UNCHANGED <<poll_count, polled>>
    /\ UNCHANGED <<args, avars, xvars>>

\* get_locked_quote() / get_locked_lp_name()
GetLockedQuote == locked_quote
GetLockedLpName == locked_lp_name

\* stop() called while stream_quotes is suspended.
Stop ==
    /\ pc \in AwaitPcs
    /\ streaming
    /\ streaming' = FALSE
    /\ stop_called' = TRUE
    /\ emitted' = NoEvent
    /\ returned' = NoReturn
    /\ UNCHANGED <<pc, now, lock, poll_count, loop_count, args, polled,
                   last_poll, epoch_polls, iter_done, avars, xvars>>

Next ==
    \/ StartStream
    \/ InitialPollReturn
    \/ SleepDone
    \/ RefreshReturn
    \/ CompetitorsReturn
    \/ Stop

Spec == Init /\ [][Next]_vars

\* A streamer instance that is reused (main_loop keeps one QuoteStreamer for
\* all requests and starts a session only when the previous one is over):
\* the behaviours that begin when a first session has ended with a lock, here
\* a session whose handler called stop() in the event of the initial poll,
\* all providers having quoted the same price at once.
ReuseInit ==
    /\ \E side \in Sides, target \in StreamTargets, price \in Prices, validity \in LPValidities :
          LET req == [side |-> side, base_asset |-> BaseAsset,
                      quote_asset |-> QuoteAsset, target_asset |-> target]
              r == [n \in LPNames |->
                       [kind |-> "quote", price |-> price, validity_seconds |-> validity]]
              res == Aggregate(lps, r, req, 0)
          IN  /\ request = req
              /\ returned = res
              /\ locked_lp_name = res.best.lp_name
              /\ locked_quote = res.best
              /\ locked_lp_quote = FindQuote(res.quotes, res.best.lp_name)
              /\ emitted = Event(res.quotes, res.best, 1, TRUE, res.best.lp_name)
    /\ pc = "done"
    /\ now = 0
    /\ streaming = FALSE
    /\ poll_count = 1
    /\ loop_count = 0
    /\ start_time = 0
    /\ duration_seconds = <<>>
    /\ auto_refresh = FALSE
    /\ improvement_threshold_bps \in ThresholdBpsChoices
    /\ polled = LPNames
    /\ last_poll = 1
    /\ epoch_polls = {1}
    /\ iter_done = 0
    /\ stop_called = TRUE
    /\ a_lps = lps
    /\ AggregatorIdle
    /\ x_lps = LPNames
    /\ x_logger = "none"
    /\ ExecutionIdle

ReuseSpec == ReuseInit /\ [][Next]_vars

\* ------------------------------------------- lp_aggregator.py, called alone
\* The aggregator's two entry points applied to drawn inputs: the registered
\* providers, the request, what each provider produces, and the sign of the
\* floating-point error in each of the two _round_amount calls.

svars == <<pc, now, streaming, locked_lp_name, locked_quote, locked_lp_quote,
           poll_count, loop_count, start_time, request, duration_seconds,
           auto_refresh, improvement_threshold_bps, polled, returned, emitted,
           last_poll, epoch_polls, iter_done, stop_called>>

\* Validity (ms) of the provider quotes of the aggregator called alone: one
\* shorter than the buffer plus the minimum and one longer.
AggValidities == {1000, 6000}

AggResponses ==
    {[kind |-> "none"], [kind |-> "error"]}
        \cup [kind : {"quote"}, price : Prices, validity_seconds : AggValidities]

\* Request amounts, in units of 10^-AmountDecimals of the target asset:
\* 0.002001 (makes 0.002001 USDT / 10.005 exactly 0.0002 BTC), 0.01 (a whole
\* number of units of either asset of BTCUSDT) and 0.012345 (more decimals
\* than either asset has).  amount * client_price stays below 2^31.
AmountDecimals == 6
Amounts == {2001, 10000, 12345}

\* base and quote asset of the requests: two supported pairs and an
\* unsupported one
RequestPairs == {<<BaseAsset, QuoteAsset>>, <<"ETH", QuoteAsset>>, <<"SOL", QuoteAsset>>}

\* The arguments QuoteRequest(...) is called with: the target asset is the
\* base asset, the quote asset, or neither.
QuoteRequests ==
    {[side |-> s, amount |-> a, base_asset |-> p[1], quote_asset |-> p[2],
      target_asset |-> tg] :
        s \in Sides, a \in Amounts, p \in RequestPairs,
        tg \in {BaseAsset, "ETH", "SOL", QuoteAsset}}

\* config/pairs.py: SUPPORTED_PAIRS, keyed by the symbol
SUPPORTED_PAIRS ==
    [symbol \in {"BTCUSDT", "ETHUSDT", "USDCUSDT"} |->
        CASE symbol = "BTCUSDT" ->
                 [base_asset |-> "BTC", quote_asset |-> "USDT",
                  base_decimals |-> 5, quote_decimals |-> 2, profit_asset |-> "quote"]
          [] symbol = "ETHUSDT" ->
                 [base_asset |-> "ETH", quote_asset |-> "USDT",
                  base_decimals |-> 4, quote_decimals |-> 2, profit_asset |-> "quote"]
          [] symbol = "USDCUSDT" ->
                 [base_asset |-> "USDC", quote_asset |-> "USDT",
                  base_decimals |-> 2, quote_decimals |-> 4, profit_asset |-> "quote"]]

\* pair_symbol = f"{request.base_asset}{request.quote_asset}"
PairSymbol(req) == req.base_asset \o req.quote_asset

RECURSIVE Pow10(_)
Pow10(k) == IF k = 0 THEN 1 ELSE 10 * Pow10(k - 1)

\* Sign of the error of the float product amount * multiplier against the
\* exact product: the error is smaller than the spacing of the exact values
\* of the model, so it shows only when the exact product is a whole number.
FloatErrors == {-1, 0, 1}

\* Mutant: both legs are rounded down.
RoundAmount_AlwaysFloor(amount, decimals, round_up, fl) ==
    LET unit == Pow10(AmountDecimals - decimals)
    IN  (amount.num \div (amount.den * unit)) * unit

\* _round_amount: math.ceil / math.floor of amount * 10^decimals, divided by
\* 10^decimals.  amount is the fraction num / den of 10^-AmountDecimals; the
\* result is in units of 10^-AmountDecimals.  When the exact product is a
\* whole number, a float product just above it makes ceil one unit more and
\* one just below it makes floor one unit less.
RoundAmount(amount, decimals, round_up, fl) ==
    LET unit == Pow10(AmountDecimals - decimals)
        scaled_den == amount.den * unit
        whole == amount.num \div scaled_den
        exact == amount.num % scaled_den = 0
    IN  IF round_up
        THEN (IF exact THEN (IF fl > 0 THEN whole + 1 ELSE whole) ELSE whole + 1) * unit
        ELSE (IF exact THEN (IF fl < 0 THEN whole - 1 ELSE whole) ELSE whole) * unit

\* Mutant: the leg in the other asset is amount * client_price for both
\* target assets.
OtherLegAmount_AlwaysTimes(req, client_price) ==
    [num |-> req.amount * client_price, den |-> BpsDenominator]

\* The leg in the asset that is not the target, before rounding:
\* request.amount * client_price for a base target, request.amount /
\* client_price for a quote target (client_price is times BpsDenominator).
OtherLegAmount(req, client_price) ==
    IF req.target_asset = req.base_asset
    THEN [num |-> req.amount * client_price, den |-> BpsDenominator]
    ELSE [num |-> req.amount * BpsDenominator, den |-> client_price]

\* _create_aggregated_quote: the two client legs, their assets and rounding.
ClientAmounts(lp_quote, req, pair_config, fl_gives, fl_receives) ==
    LET client_price == ClientPrice(lp_quote.price, req)
        other_leg == OtherLegAmount(req, client_price)
        given == [num |-> req.amount, den |-> 1]
        on_base == req.target_asset = req.base_asset
        client_gives_asset ==
            IF on_base = (req.side = "BUY") THEN req.quote_asset ELSE req.base_asset
        client_receives_asset ==
            IF on_base = (req.side = "BUY") THEN req.base_asset ELSE req.quote_asset
        client_gives_amount == IF req.side = "SELL" THEN given ELSE other_leg
        client_receives_amount == IF req.side = "BUY" THEN given ELSE other_leg
        gives_decimals ==
            IF client_gives_asset = req.base_asset
            THEN pair_config.base_decimals ELSE pair_config.quote_decimals
        receives_decimals ==
            IF client_receives_asset = req.base_asset
            THEN pair_config.base_decimals ELSE pair_config.quote_decimals
    IN  [amount |-> req.amount,
         base_asset |-> req.base_asset,
         quote_asset |-> req.quote_asset,
         target_asset |-> req.target_asset,
         profit_asset |-> pair_config.profit_asset,
         client_gives_amount |->
             RoundAmount(client_gives_amount, gives_decimals, TRUE, fl_gives),
         client_gives_asset |-> client_gives_asset,
         client_receives_amount |->
             RoundAmount(client_receives_amount, receives_decimals, FALSE, fl_receives),
         client_receives_asset |-> client_receives_asset,
         base_decimals |-> pair_config.base_decimals,
         quote_decimals |-> pair_config.quote_decimals]

Returned(quotes, best) == [kind |-> "return", quotes |-> quotes, best |-> best]
Raised(error) == [kind |-> "raise", error |-> error]

\* Mutant: the empty-list check is missing, so min() / max() of an empty list
\* raises.
SelectAndPrice_NoEmptyCheck(valid_quotes, req, t, fl_gives, fl_receives) ==
    IF valid_quotes = <<>> THEN Raised("ValueError")
    ELSE IF PairSymbol(req) \notin DOMAIN SUPPORTED_PAIRS THEN Raised("ValueError")
    ELSE LET best_lp_quote == SelectBest(valid_quotes, req.side)
         IN  Returned(valid_quotes,
                      CreateAggregatedQuote(best_lp_quote, req, t)
                          @@ ClientAmounts(best_lp_quote, req,
                                           SUPPORTED_PAIRS[PairSymbol(req)],
                                           fl_gives, fl_receives))

\* Mutant: a pair without configuration is priced with the configuration of
\* BTCUSDT.
SelectAndPrice_DefaultPair(valid_quotes, req, t, fl_gives, fl_receives) ==
    IF valid_quotes = <<>> THEN Returned(<<>>, NoQuote)
    ELSE LET best_lp_quote == SelectBest(valid_quotes, req.side)
         IN  Returned(valid_quotes,
                      CreateAggregatedQuote(best_lp_quote, req, t)
                          @@ ClientAmounts(best_lp_quote, req,
                                           SUPPORTED_PAIRS["BTCUSDT"],
                                           fl_gives, fl_receives))

\* The common tail of get_all_quotes / get_quotes_excluding, with all the
\* fields of the AggregatedQuote: ([], None) without a valid quote;
\* get_pair_config raises ValueError for an unsupported pair.
SelectAndPrice(valid_quotes, req, t, fl_gives, fl_receives) ==
    IF valid_quotes = <<>> THEN Returned(<<>>, NoQuote)
    ELSE IF PairSymbol(req) \notin DOMAIN SUPPORTED_PAIRS THEN Raised("ValueError")
    ELSE LET best_lp_quote == SelectBest(valid_quotes, req.side)
         IN  Returned(valid_quotes,
                      CreateAggregatedQuote(best_lp_quote, req, t)
                          @@ ClientAmounts(best_lp_quote, req,
                                           SUPPORTED_PAIRS[PairSymbol(req)],
                                           fl_gives, fl_receives))

\* Mutant: __post_init__ does not validate.
QuoteRequest_NoValidation(fields) == [kind |-> "object", request |-> fields]

\* QuoteRequest(side, amount, base_asset, quote_asset, target_asset):
\* __post_init__ raises ValueError when target_asset is neither base_asset
\* nor quote_asset, so no object comes out.
QuoteRequest(fields) ==
    IF fields.target_asset \notin {fields.base_asset, fields.quote_asset}
    THEN Raised("ValueError")
    ELSE [kind |-> "object", request |-> fields]

\* the request object in the caller's hands, if the construction gave one
HasRequest == a_request # NoCall /\ a_request.result.kind = "object"

\* The orders in which the concurrent request_quote calls of a fan-out to the
\* providers `names` can complete.
CompletionOrders(names) ==
    {o \in [1..Len(names) -> NamesOf(names)] :
        \A i, j \in 1..Len(names) : i # j => o[i] # o[j]}

\* Mutant: the results are collected in the order of completion.
Gather_AsCompleted(tasks, completed) == completed

\* asyncio.gather(*tasks): whatever the order in which the tasks complete,
\* the result of the i-th awaitable passed is the i-th entry of the list
\* returned, once all of them have completed.
Gather(tasks, completed) ==
    [i \in 1..Len(tasks) |->
        completed[CHOOSE k \in 1..Len(completed) : completed[k] = tasks[i]]]

\* LPAggregator(lps=...) for a list of 0..NumLPs providers
AggInit ==
    /\ StreamerIdle
    /\ a_lps \in {SubSeq(lps, 1, n) : n \in 0..NumLPs}
    /\ AggregatorIdle
    /\ x_lps = LPNames
    /\ x_logger = "none"
    /\ ExecutionIdle

\* get_all_quotes(request): fan out to every registered provider, gather.
\* (The aggregator keeps nothing from one call to the next, so a behaviour
\* makes one call.)
GetAllQuotes ==
    /\ a_call = NoCall
    /\ HasRequest
    /\ \E r \in [NamesOf(a_lps) -> AggResponses], completed \in CompletionOrders(a_lps),
          fl_gives \in FloatErrors, fl_receives \in FloatErrors :
          LET req == a_request.result.request
              results == Gather(a_lps, completed)
          IN  /\ a_call' = [op |-> "get_all_quotes", excluded |-> None, request |-> req,
                            completed |-> completed]
              /\ a_called' = NamesOf(a_lps)
              /\ a_responses' = r
              /\ a_outcome' = SelectAndPrice(ValidQuotes(results, r, now), req, now,
                                             fl_gives, fl_receives)
    /\ UNCHANGED <<a_lps, a_request, svars, xvars>>

\* get_quotes_excluding(excluded_lp_name, request): fan out to the providers
\* with another name, if there is any.
GetQuotesExcluding ==
    /\ a_call = NoCall
    /\ HasRequest
    /\ \E excluded_lp_name \in LPNames :
          LET competitor_lps == SeqFilterNames(a_lps, excluded_lp_name)
              req == a_request.result.request
          IN  /\ a_called' = NamesOf(competitor_lps)
              /\ IF competitor_lps = <<>>
                 THEN /\ a_call' = [op |-> "get_quotes_excluding",
                                    excluded |-> excluded_lp_name, request |-> req,
                                    completed |-> <<>>]
                      /\ a_responses' = <<>>
                      /\ a_outcome' = Returned(<<>>, NoQuote)
                 ELSE \E r \in [NamesOf(competitor_lps) -> AggResponses],
                         completed \in CompletionOrders(competitor_lps),
                         fl_gives \in FloatErrors, fl_receives \in FloatErrors :
                         LET results == Gather(competitor_lps, completed)
                         IN  /\ a_call' = [op |-> "get_quotes_excluding",
                                           excluded |-> excluded_lp_name, request |-> req,
                                           completed |-> completed]
                             /\ a_responses' = r
                             /\ a_outcome' = SelectAndPrice(ValidQuotes(results, r, now),
                                                            req, now, fl_gives, fl_receives)
    /\ UNCHANGED <<a_lps, a_request, svars, xvars>>

\* The caller builds the request it will pass to the aggregator.
NewQuoteRequest ==
    /\ a_request = NoCall
    /\ \E fields \in QuoteRequests :
          a_request' = [args |-> fields, result |-> QuoteRequest(fields)]
    /\ UNCHANGED <<a_lps, a_call, a_called, a_responses, a_outcome, svars, xvars>>

AggNext ==
    \/ NewQuoteRequest
    \/ GetAllQuotes
    \/ GetQuotesExcluding

AggSpec == AggInit /\ [][AggNext]_vars

\* ----------------------------------------------------------- execution/
\* The values of the execution functions (floats in the code) are exact
\* rationals num / den here, den > 0, in lowest terms.
RECURSIVE GCD(_, _)
GCD(a, b) == IF b = 0 THEN a ELSE GCD(b, a % b)

Abs(n) == IF n < 0 THEN -n ELSE n

Frac(n, d) == LET g == GCD(Abs(n), d) IN [num |-> n \div g, den |-> d \div g]

FInt(n) == [num |-> n, den |-> 1]

FMul(a, b) ==
    LET g1 == GCD(Abs(a.num), b.den)
        g2 == GCD(Abs(b.num), a.den)
    IN  Frac((a.num \div g1) * (b.num \div g2), (a.den \div g2) * (b.den \div g1))

\* a / b for b > 0
FDiv(a, b) == FMul(a, [num |-> b.den, den |-> b.num])

FSub(a, b) ==
    LET g == GCD(a.den, b.den)
        l == (a.den \div g) * b.den
    IN  Frac(a.num * (l \div a.den) - b.num * (l \div b.den), l)

\* Python None where a number is expected (quantity, quote_qty)
NoAmount == [none |-> TRUE]

\* Amounts of the quotes handed to the execution functions are counted in
\* 10^-2 of the asset, so that amount * price * 10000 stays below 2^31 for
\* amounts large enough for the markup to outweigh the rounding of a leg.
\* The legs are rounded to whole units: the precision of the USDT leg of
\* BTCUSDT (a BTC leg computed from a USDT amount has 5 decimals in the
\* code, 2 here).  Request amounts: 1.50 and 10.00 of the target asset.
ExecAmounts == {150, 1000}

WholeUnits ==
    [base_decimals |-> AmountDecimals, quote_decimals |-> AmountDecimals,
     profit_asset |-> "quote"]

ExecQuoteFields ==
    {"lp_name", "lp_price", "side", "amount", "base_asset", "quote_asset",
     "target_asset", "client_gives_amount", "client_gives_asset",
     "client_receives_amount", "client_receives_asset"}

\* The AggregatedQuote that _create_aggregated_quote makes of a request and
\* the quote of provider `name` at `price` (the fields the execution
\* functions read).
ExecQuote(side, amount, base, target, price, name) ==
    LET req == [side |-> side, amount |-> amount, base_asset |-> base,
                quote_asset |-> QuoteAsset, target_asset |-> target]
        lp_quote == [lp_name |-> name, price |-> price,
                     validity_seconds |-> 6000, timestamp |-> 0]
        q == CreateAggregatedQuote(lp_quote, req, 0)
                 @@ ClientAmounts(lp_quote, req, WholeUnits, 0, 0)
    IN  [f \in ExecQuoteFields |-> q[f]]

\* Mutant: the quote quantity is set and the base quantity is kept too.
InQuote_KeepsQuantity(qty) == [quantity |-> qty, quote_qty |-> qty]

\* quantity = <base amount>, quote_qty = None
InBase(qty) == [quantity |-> qty, quote_qty |-> NoAmount]

\* quantity = None, quote_qty = <quote amount>
InQuote(qty) == [quantity |-> NoAmount, quote_qty |-> qty]

\* Mutant: the exchange side is the client's side, also for a quote-asset
\* target.
DetermineHedgeParams_ClientSide(quote, side, target_asset, pair_config) ==
    LET profit_asset == pair_config.profit_asset
        market_price == FInt(quote.lp_price)
        client_gives_amount == FInt(quote.client_gives_amount)
        client_receives_amount == FInt(quote.client_receives_amount)
    IN  IF side = "BUY"
        THEN [exchange_side |-> "BUY"]
                 @@ (IF profit_asset = "quote"
                     THEN InBase(client_receives_amount)
                     ELSE InQuote(client_gives_amount))
        ELSE [exchange_side |-> "SELL"]
                 @@ (IF profit_asset = "base"
                     THEN InBase(FDiv(client_receives_amount, market_price))
                     ELSE InBase(client_gives_amount))

\* hedge_calculator.determine_hedge_params
DetermineHedgeParams(quote, side, target_asset, pair_config) ==
    LET profit_asset == pair_config.profit_asset
        market_price == FInt(quote.lp_price)
        client_gives_amount == FInt(quote.client_gives_amount)
        client_receives_amount == FInt(quote.client_receives_amount)
    IN  IF target_asset = pair_config.base_asset
        THEN IF side = "BUY"
             THEN [exchange_side |-> "BUY"]
                      @@ (IF profit_asset = "quote"
                          THEN InBase(client_receives_amount)
                          ELSE InQuote(client_gives_amount))
             ELSE [exchange_side |-> "SELL"]
                      @@ (IF profit_asset = "base"
                          THEN InBase(FDiv(client_receives_amount, market_price))
                          ELSE InBase(client_gives_amount))
        ELSE IF side = "BUY"
             THEN [exchange_side |-> "SELL"]
                      @@ (IF profit_asset = "base"
                          THEN InBase(FDiv(client_receives_amount, market_price))
                          ELSE InBase(client_gives_amount))
             ELSE [exchange_side |-> "BUY"]
                      @@ (IF profit_asset = "base"
                          THEN InQuote(client_gives_amount)
                          ELSE InBase(client_receives_amount))

\* commission_bps of execute_simulated_trade: the default 0.1, and 3
DefaultCommissionBps == [num |-> 1, den |-> 10]
CommissionBpsChoices == {DefaultCommissionBps, FInt(3)}

\* simulator.execute_simulated_trade (without the order id)
ExecuteSimulatedTrade(exchange_side, quantity, quote_qty, lp_price, commission_bps) ==
    LET price == FInt(lp_price)
        filled_qty == IF quantity # NoAmount THEN quantity ELSE FDiv(quote_qty, price)
        filled_quote_qty == IF quantity # NoAmount THEN FMul(quantity, price) ELSE quote_qty
        rate == FDiv(commission_bps, FInt(BpsDenominator))
        commission == IF exchange_side = "BUY" THEN FMul(filled_qty, rate)
                                               ELSE FMul(filled_quote_qty, rate)
    IN  [status |-> "FILLED",
         side |-> exchange_side,
         executed_qty |-> IF exchange_side = "BUY" THEN FSub(filled_qty, commission)
                                                   ELSE filled_qty,
         executed_quote_qty |-> IF exchange_side = "BUY" THEN filled_quote_qty
                                ELSE FSub(filled_quote_qty, commission),
         avg_price |-> lp_price,
         commission |-> commission,
         commission_bps |-> commission_bps]

\* Mutant: the gross P&L is always reported in the quote asset.
GrossPnl_InQuoteAsset(quote, side, target_asset, execution_result, pair_config) ==
    [pnl_amount |-> FSub(FInt(quote.client_gives_amount),
                         execution_result.executed_quote_qty),
     pnl_asset |-> pair_config.quote_asset]

\* calculate_pnl, lines 71-113: gross P&L and its asset
GrossPnl(quote, side, target_asset, execution_result, pair_config) ==
    LET base_asset == pair_config.base_asset
        quote_asset == pair_config.quote_asset
        profit_asset == pair_config.profit_asset
        client_pays == FInt(quote.client_gives_amount)
        client_receives == FInt(quote.client_receives_amount)
        we_got_base == execution_result.executed_qty
        we_spent_quote == execution_result.executed_quote_qty
        bought_base_profit == [pnl_amount |-> FSub(we_got_base, client_receives),
                               pnl_asset |-> base_asset]
        bought_quote_profit == [pnl_amount |-> FSub(client_pays, we_spent_quote),
                                pnl_asset |-> quote_asset]
        sold_quote_profit == [pnl_amount |-> FSub(we_spent_quote, client_receives),
                              pnl_asset |-> quote_asset]
        sold_base_profit == [pnl_amount |-> FSub(client_pays, we_got_base),
                             pnl_asset |-> base_asset]
    IN  IF target_asset = base_asset
        THEN IF side = "BUY"
             THEN (IF profit_asset = "base" THEN bought_base_profit ELSE bought_quote_profit)
             ELSE (IF profit_asset = "quote" THEN sold_quote_profit ELSE sold_base_profit)
        ELSE IF side = "BUY"
             THEN (IF profit_asset = "quote" THEN sold_quote_profit ELSE sold_base_profit)
             ELSE (IF profit_asset = "base" THEN bought_base_profit ELSE bought_quote_profit)

\* Mutant: the commission is not taken off.
NetPnl_Gross(pnl_amount, execution_result) == pnl_amount

\* commission = execution_result.get('commission', 0.0);
\* pnl_after_fees = pnl_amount - commission
NetPnl(pnl_amount, execution_result) ==
    FSub(pnl_amount,
         IF "commission" \in DOMAIN execution_result
         THEN execution_result.commission ELSE FInt(0))

\* calculate_pnl, lines 118-131: P&L in bps of the quote-currency notional
PnlBps(quote, pnl_asset, pnl_after_fees, pair_config) ==
    LET notional_quote == IF quote.client_gives_asset = pair_config.quote_asset
                          THEN quote.client_gives_amount
                          ELSE quote.client_receives_amount
        per_notional == [num |-> BpsDenominator, den |-> notional_quote]
    IN  IF pnl_asset = pair_config.base_asset /\ notional_quote > 0
        THEN FMul(FMul(pnl_after_fees, FInt(quote.lp_price)), per_notional)
        ELSE IF notional_quote > 0 THEN FMul(pnl_after_fees, per_notional)
                                   ELSE FInt(0)

\* pnl_calculator.calculate_pnl
CalculatePnl(quote, side, target_asset, execution_result, pair_config) ==
    LET gross == GrossPnl(quote, side, target_asset, execution_result, pair_config)
        pnl_after_fees == NetPnl(gross.pnl_amount, execution_result)
    IN  [pnl_amount |-> gross.pnl_amount,
         pnl_asset |-> gross.pnl_asset,
         pnl_after_fees |-> pnl_after_fees,
         pnl_bps |-> PnlBps(quote, gross.pnl_asset, pnl_after_fees, pair_config)]

\* ---------------------------------------------- execution_manager.py
\* How the connection of the quote logger behaves in _log_execution: there
\* is no logger; the INSERT and the commit succeed; the INSERT raises and
\* the rollback succeeds; the connection is closed, so that the INSERT and
\* the rollback in the except branch both raise.
Loggers == {"none", "ok", "insert_fails", "closed"}

\* lp.execute_trade: true, false, or an exception with its str(e)
TradeResponses ==
    {[kind |-> "return", value |-> TRUE], [kind |-> "return", value |-> FALSE],
     [kind |-> "raise", message |-> "timeout"], [kind |-> "raise", message |-> ""]}

\* the quotes execute_quote is called with: of a registered provider or not,
\* on a supported pair or not
ExecQuotes ==
    UNION {{ExecQuote(side, amount, base, target, price, name) :
                side \in Sides, amount \in ExecAmounts, target \in {base, QuoteAsset},
                price \in Prices, name \in LPNames} :
           base \in {BaseAsset, "SOL"}}

Returns(result) == [kind |-> "return", result |-> result]

\* the result dictionary of the except branch
ExceptionResult(quote, message) ==
    [status |-> "FAILED", lp_name |-> quote.lp_name, exchange_side |-> None,
     quantity |-> NoAmount, quote_qty |-> NoAmount, error_message |-> message]

\* the result dictionary when lp.execute_trade returned false
LpFailedResult(quote, hedge) ==
    [status |-> "FAILED", lp_name |-> quote.lp_name,
     exchange_side |-> hedge.exchange_side, quantity |-> hedge.quantity,
     quote_qty |-> hedge.quote_qty, error_message |-> "LP execution failed"]

\* the result dictionary of a completed pipeline
SuccessResult(quote, hedge, exec_result, pnl) ==
    [status |-> "SUCCESS", lp_name |-> quote.lp_name,
     exchange_side |-> hedge.exchange_side, quantity |-> hedge.quantity,
     quote_qty |-> hedge.quote_qty,
     executed_qty |-> exec_result.executed_qty,
     executed_quote_qty |-> exec_result.executed_quote_qty,
     avg_price |-> exec_result.avg_price,
     commission |-> exec_result.commission,
     commission_asset |-> IF hedge.exchange_side = "BUY" THEN quote.base_asset
                                                         ELSE quote.quote_asset,
     pnl_amount |-> pnl.pnl_amount, pnl_asset |-> pnl.pnl_asset,
     pnl_after_fees |-> pnl.pnl_after_fees, pnl_bps |-> pnl.pnl_bps,
     error_message |-> None]

\* The except branch of execute_quote: the FAILED record is built, logged if
\* there is a logger, and returned.  _log_execution raises out of its own
\* except branch when the rollback raises, and then leaves execute_quote.
OnException(quote, message, logger, steps) ==
    IF logger = "none"
    THEN [outcome |-> Returns(ExceptionResult(quote, message)), steps |-> steps]
    ELSE IF logger = "closed"
    THEN [outcome |-> Raised("ProgrammingError"), steps |-> Append(steps, "log")]
    ELSE [outcome |-> Returns(ExceptionResult(quote, message)),
          steps |-> Append(steps, "log")]

\* A result built in the try block is logged if there is a logger, and
\* returned; _log_execution raising there is caught by the except branch.
LogAndReturn(quote, result, logger, steps) ==
    IF logger = "none"
    THEN [outcome |-> Returns(result), steps |-> steps]
    ELSE IF logger = "closed"
    THEN OnException(quote, "Cannot operate on a closed database.", logger,
                     Append(steps, "log"))
    ELSE [outcome |-> Returns(result), steps |-> Append(steps, "log")]

\* Mutant: the hedge is filled whatever lp.execute_trade returned.
AfterTrade_IgnoresResult(quote, hedge, pair_config, resp, logger, steps) ==
    IF resp.kind = "raise" THEN OnException(quote, resp.message, logger, steps)
    ELSE LET exec_result ==
                 ExecuteSimulatedTrade(hedge.exchange_side, hedge.quantity,
                                       hedge.quote_qty, quote.lp_price,
                                       DefaultCommissionBps)
             pnl == CalculatePnl(quote, quote.side, quote.target_asset,
                                 exec_result, pair_config)
         IN  LogAndReturn(quote, SuccessResult(quote, hedge, exec_result, pnl),
                          logger, steps \o <<"fill", "pnl">>)

\* execute_quote from the return of lp.execute_trade to its end.
AfterTrade(quote, hedge, pair_config, resp, logger, steps) ==
    IF resp.kind = "raise" THEN OnException(quote, resp.message, logger, steps)
    ELSE IF ~resp.value
    THEN LogAndReturn(quote, LpFailedResult(quote, hedge), logger, steps)
    ELSE LET exec_result ==
                 ExecuteSimulatedTrade(hedge.exchange_side, hedge.quantity,
                                       hedge.quote_qty, quote.lp_price,
                                       DefaultCommissionBps)
             pnl == CalculatePnl(quote, quote.side, quote.target_asset,
                                 exec_result, pair_config)
         IN  LogAndReturn(quote, SuccessResult(quote, hedge, exec_result, pnl),
                          logger, steps \o <<"fill", "pnl">>)

\* get_pair_config(symbol) for a supported symbol
GetPairConfig(symbol) == SUPPORTED_PAIRS[symbol]

\* ExecutionManager(lps, quote_logger) for the first 1..NumLPs providers
ExecInit ==
    /\ StreamerIdle
    /\ a_lps = lps
    /\ AggregatorIdle
    /\ x_lps \in {NamesOf(SubSeq(lps, 1, n)) : n \in 1..NumLPs}
    /\ x_logger \in Loggers
    /\ ExecutionIdle

\* execute_quote(quote, lp_quote) up to the await of lp.execute_trade, or to
\* its end when the provider or the pair configuration is not found.
ExecuteQuote ==
    /\ x_pc = "idle"
    /\ p_run = NoCall
    /\ \E quote \in ExecQuotes :
          /\ x_call' = [quote |-> quote]
          /\ IF quote.lp_name \notin x_lps \/ PairSymbol(quote) \notin DOMAIN SUPPORTED_PAIRS
             THEN LET message == IF quote.lp_name \notin x_lps
                                 THEN "LP not found" ELSE "Unsupported trading pair"
                      end == OnException(quote, message, x_logger, <<>>)
                  IN  /\ x_result' = end.outcome
                      /\ x_steps' = end.steps
                      /\ x_pc' = "done"
                      /\ UNCHANGED x_hedge
             ELSE /\ x_hedge' = DetermineHedgeParams(quote, quote.side, quote.target_asset,
                                                     GetPairConfig(PairSymbol(quote)))
                  /\ x_steps' = <<"hedge", "execute_trade">>
                  /\ x_pc' = "await_execute_trade"
                  /\ UNCHANGED x_result
    /\ UNCHANGED <<x_lps, x_logger, x_trade, p_run, svars, avars>>

\* lp.execute_trade returns or raises, and execute_quote runs to its end.
ExecuteTradeReturn ==
    /\ x_pc = "await_execute_trade"
    /\ \E resp \in TradeResponses :
          LET end == AfterTrade(x_call.quote, x_hedge,
                                GetPairConfig(PairSymbol(x_call.quote)),
                                resp, x_logger, x_steps)
          IN  /\ x_trade' = resp
              /\ x_result' = end.outcome
              /\ x_steps' = end.steps
              /\ x_pc' = "done"
    /\ UNCHANGED <<x_lps, x_logger, x_call, x_hedge, p_run, svars, avars>>

\* request amounts of the pipeline run on its own: also 0
PipelineAmounts == ExecAmounts \cup {0}

\* determine_hedge_params -> execute_simulated_trade at the provider price
\* -> calculate_pnl, for a BTCUSDT quote, either profit asset and either
\* commission rate; calculate_pnl gets the simulator's result, or the same
\* without its 'commission' key.
RunPipeline ==
    /\ p_run = NoCall
    /\ x_pc = "idle"
    /\ \E side \in Sides, target \in {BaseAsset, QuoteAsset}, amount \in PipelineAmounts,
          price \in Prices, profit_asset \in {"base", "quote"},
          commission_bps \in CommissionBpsChoices, with_commission \in BOOLEAN :
          LET quote == ExecQuote(side, amount, BaseAsset, target, price, lps[1])
              pair_config == [GetPairConfig("BTCUSDT") EXCEPT !.profit_asset = profit_asset]
              hedge == DetermineHedgeParams(quote, side, target, pair_config)
              filled == ExecuteSimulatedTrade(hedge.exchange_side, hedge.quantity,
                                              hedge.quote_qty, quote.lp_price,
                                              commission_bps)
              execution_result ==
                  IF with_commission THEN filled
                  ELSE [f \in DOMAIN filled \ {"commission"} |-> filled[f]]
              pnl == CalculatePnl(quote, side, target, execution_result, pair_config)
          IN  p_run' = [quote |-> quote, pair_config |-> pair_config,
                        commission_bps |-> commission_bps, hedge |-> hedge,
                        execution_result |-> execution_result, pnl |-> pnl]
    /\ UNCHANGED <<x_lps, x_logger, x_call, x_pc, x_hedge, x_trade, x_steps, x_result,
                   svars, avars>>

ExecNext ==
    \/ ExecuteQuote
    \/ ExecuteTradeReturn
    \/ RunPipeline

ExecSpec == ExecInit /\ [][ExecNext]_vars

\* ================================================================ claims
\* Helpers of the claims, written from the claims' words and not through the
\* operators of the model above.

\* a step of stream_quotes itself (not stop(), not stuttering)
StreamStep == pc' # pc

\* the remaining validity of client quote q at time t is <= 0
NoValidityLeft(q, t) == q.validity_seconds - (t - q.created_at) <= 0

\* a fan-out to the competitors returns and the expiry re-check passes
CompetitorRound ==
    /\ pc = "await_competitors"
    /\ StreamStep
    /\ ~NoValidityLeft(locked_quote, now')

\* competitor price - (locked price -/+ threshold), times 10000:
\* 0 on the boundary, negative (BUY) / positive (SELL) beyond it
BoundaryGap(q, locked, side, bps) ==
    IF side = "BUY"
    THEN q.client_price * 10000 - (locked.client_price * 10000 - locked.client_price * bps)
    ELSE q.client_price * 10000 - (locked.client_price * 10000 + locked.client_price * bps)

PassesThreshold(q, locked, side, bps) ==
    IF side = "BUY" THEN BoundaryGap(q, locked, side, bps) <= 0
                    ELSE BoundaryGap(q, locked, side, bps) >= 0

LockUnchanged ==
    /\ locked_lp_name' = locked_lp_name
    /\ locked_quote' = locked_quote
    /\ locked_lp_quote' = locked_lp_quote

\* C1: the poll number of an update event is the previous event's poll number
\* plus 1, except that an auto-refresh event carries 1; within one lock epoch
\* no poll number is used twice.
C1_PollNumbersStepByOne ==
    [][(StreamStep /\ emitted' # NoEvent) =>
          IF pc = "await_refresh"
          THEN emitted'.poll = 1
          ELSE /\ emitted'.poll = last_poll + 1
               /\ emitted'.poll \notin epoch_polls]_vars

\* C1 witness: the 4th or a later iteration emitted poll number 2, i.e. the
\* counter ran up, was reset by a refresh and runs up again.
C1_Witness ==
    /\ emitted # NoEvent
    /\ emitted.poll = 2
    /\ iter_done >= 4

\* C2 (as claimed): a best competitor priced exactly on the threshold
\* boundary does not trigger a lock switch.
C2_BoundaryDoesNotSwitch ==
    [][(/\ CompetitorRound
        /\ returned'.best # NoQuote
        /\ BoundaryGap(returned'.best, locked_quote, request.side,
                       improvement_threshold_bps) = 0)
          => (LockUnchanged /\ ~emitted'.improvement)]_vars

\* C2 (amended): the threshold is inclusive: a best competitor priced exactly
\* on the boundary triggers the lock switch, and so does one strictly beyond it.
C2_BoundarySwitches ==
    [][(/\ CompetitorRound
        /\ returned'.best # NoQuote
        /\ PassesThreshold(returned'.best, locked_quote, request.side,
                           improvement_threshold_bps))
          => (/\ locked_quote' = returned'.best
              /\ locked_lp_name' = returned'.best.lp_name
              /\ emitted'.improvement)]_vars

\* C2 witness: a switch event whose new client price is exactly on the
\* boundary of the old locked provider's client price (the old frozen quote
\* is the last entry of the event's provider list).
C2_Witness ==
    /\ emitted # NoEvent
    /\ emitted.improvement
    /\ emitted.poll > 1
    /\ Len(emitted.quotes) >= 2
    /\ LET old == emitted.quotes[Len(emitted.quotes)]
           oldq == [client_price |-> ClientPrice(old.price, request)]
       IN  /\ old.lp_name # emitted.locked
           /\ BoundaryGap(emitted.best, oldq, request.side,
                          improvement_threshold_bps) = 0

\* C3: in a competitor round with an unexpired lock, the lock switches to the
\* best competitor iff its price passes the side-dependent threshold
\* (<= locked - threshold for BUY, >= locked + threshold for SELL); otherwise
\* the three lock fields are unchanged and the event carries improvement=false.
C3_SwitchIffThreshold ==
    [][CompetitorRound =>
          LET passes == /\ returned'.best # NoQuote
                        /\ PassesThreshold(returned'.best, locked_quote, request.side,
                                           improvement_threshold_bps)
          IN  /\ passes => /\ locked_quote' = returned'.best
                           /\ locked_lp_name' = returned'.best.lp_name
                           /\ locked_lp_name' # locked_lp_name
                           /\ emitted'.improvement
              /\ ~passes => /\ LockUnchanged
                            /\ emitted' # NoEvent
                            /\ ~emitted'.improvement]_vars

\* C3 witness: a competitor answered but fell short of the threshold, and the
\* lock was kept.
C3_Witness ==
    /\ emitted # NoEvent
    /\ ~emitted.improvement
    /\ returned # NoReturn
    /\ returned.best # NoQuote
    /\ locked_lp_name # returned.best.lp_name

\* C4: a competitor round polls exactly the registered providers other than
\* the locked one; the locked provider is queried only by polls of all
\* providers (initial poll, auto-refresh).
C4_LockedNotPolled ==
    /\ pc = "await_competitors" => /\ polled = LPNames \ {locked_lp_name}
                                   /\ locked_lp_name \notin polled
    /\ (pc \in AwaitPcs \ {"sleep"} /\ locked_lp_name \in polled) => pc = "await_refresh"

\* C4 witness: a competitor round in flight after the lock changed hands in
\* an earlier competitor round, so the former holder is among the polled.
C4_Witness ==
    /\ pc = "await_competitors"
    /\ ~auto_refresh
    /\ \A d \in Delays : locked_quote.created_at > d
    /\ polled # {}

\* C5: if the initial poll yields no usable quote, stream_quotes returns with
\* no event, no lock and streaming = false.
C5_InitialOutageAborts ==
    [][(pc = "await_initial" /\ StreamStep /\ returned'.quotes = <<>>) =>
          /\ pc' = "done"
          /\ ~streaming'
          /\ emitted' = NoEvent
          /\ last_poll' = 0
          /\ locked_lp_name' = None
          /\ locked_quote' = NoQuote
          /\ locked_lp_quote' = NoQuote]_vars

\* C5 witness: the session ended on its initial poll with nothing returned.
C5_Witness ==
    /\ pc = "done"
    /\ iter_done = 0
    /\ returned # NoReturn
    /\ returned.quotes = <<>>
    /\ ~stop_called

\* C6: if no competitor returns a quote in a round with an unexpired lock, the
\* lock is unchanged, the event carries improvement=false, the locked quote
\* and only the frozen quote of the locked provider, and the loop goes on
\* (it is left only on the duration limit or a stop).
C6_CompetitorOutageKeepsLock ==
    [][(CompetitorRound /\ returned'.quotes = <<>>) =>
          /\ LockUnchanged
          /\ emitted' = [quotes |-> <<locked_lp_quote>>, best |-> locked_quote,
                         poll |-> poll_count, improvement |-> FALSE,
                         locked |-> locked_lp_name]
          /\ pc' \in {"sleep", "done"}
          /\ pc' = "done" => (stop_called' \/ (/\ duration_seconds # <<>>
                                               /\ now' - start_time >= duration_seconds[1]))]_vars

\* C6 witness: an event with only the frozen locked quote, and the loop
\* sleeping before its next round.
C6_Witness ==
    /\ pc = "sleep"
    /\ emitted # NoEvent
    /\ ~emitted.improvement
    /\ returned # NoReturn
    /\ returned.quotes = <<>>
    /\ emitted.quotes = <<locked_lp_quote>>

\* the iteration that ends in this step leaves the loop on expiry without
\* auto-refresh or on an auto-refresh that got no quote
LeavesOnExpiry ==
    \/ /\ ~auto_refresh
       /\ pc \in {"sleep", "await_competitors"}
       /\ NoValidityLeft(locked_quote, now')
    \/ /\ pc = "await_refresh"
       /\ returned'.quotes = <<>>

C9_AutoRefreshRelocks ==
    [][/\ (/\ auto_refresh
           /\ pc \in {"sleep", "await_competitors"}
           /\ StreamStep
           /\ NoValidityLeft(locked_quote, now'))
          => (/\ pc' = "await_refresh"
              /\ polled' = LPNames
              /\ emitted' = NoEvent
              /\ LockUnchanged)
       /\ (pc = "await_refresh" /\ StreamStep /\ returned'.quotes # <<>>)
          => (/\ auto_refresh
              /\ locked_quote' = returned'.best
              /\ locked_lp_name' = returned'.best.lp_name
              /\ locked_lp_quote'.lp_name = locked_lp_name'
              /\ emitted' = [quotes |-> returned'.quotes, best |-> locked_quote',
                             poll |-> 1, improvement |-> TRUE,
                             locked |-> locked_lp_name']
              /\ pc' \in {"sleep", "done"}
              /\ pc' = "done" => stop_called')]_vars

\* C9 witness: a refresh event (poll 1 after at least two iterations) that
\* re-locked the provider whose expired quote was locked before, and the loop
\* sleeping before its next round.
C9_Witness ==
    /\ pc = "sleep"
    /\ auto_refresh
    /\ iter_done >= 2
    /\ emitted # NoEvent
    /\ emitted.poll = 1
    /\ emitted.improvement
    /\ Len(emitted.quotes) = NumLPs

\* C10 (as claimed): once an iteration ends with elapsed >= duration, no
\* further iteration starts, with auto_refresh off or on.
C10_DurationEndsLoop ==
    [][(/\ duration_seconds # <<>>
        /\ iter_done' = iter_done + 1
        /\ now' - start_time >= duration_seconds[1])
          => (pc' = "done" /\ loop_count' = loop_count)]_vars

\* how many awaits of stream_quotes can still return before the iteration in
\* progress at position p has ended
StepsLeftInIteration(p) ==
    CASE p = "sleep" -> 3
      [] p = "await_competitors" -> 2
      [] p \in {"await_initial", "await_refresh"} -> 1
      [] OTHER -> 0

\* C11: once stop() was called in a running session, the flag stays cleared,
\* no new loop iteration starts (loop_count does not grow, the loop never
\* goes back to sleep), every further step of stream_quotes brings the
\* iteration in progress closer to its end, and an update event emitted after
\* the stop is the last thing the session does (at most one further event).
C11_StopEndsSession ==
    [][/\ stop_called' => (loop_count' = loop_count /\ ~streaming')
       /\ (stop_called /\ stop_called' /\ StreamStep)
             => (/\ pc' # "sleep"
                 /\ StepsLeftInIteration(pc') < StepsLeftInIteration(pc))
       /\ (stop_called /\ emitted' # NoEvent) => pc' = "done"
       /\ (stop_called /\ stop_called' /\ pc = "done") => UNCHANGED vars]_vars

\* C11 witness: stop() was called during the sleep or the competitor poll of
\* an iteration, the locked quote then turned out expired, and the iteration
\* in progress is now waiting for its auto-refresh poll with the flag cleared.
C11_Witness ==
    /\ stop_called
    /\ ~streaming
    /\ pc = "await_refresh"
    /\ loop_count >= 2

\* C12: an update event is delivered by the very step in which the fan-out
\* of its poll returns and carries that poll's number; when the handler has
\* returned the coroutine is at the sleep or has ended, so no provider
\* request of a later poll is in flight or issued in that step; within a lock
\* epoch the events come in increasing poll order.
C12_EventsInPollOrder ==
    [][emitted' # NoEvent =>
          /\ pc \in AwaitPcs \ {"sleep"}
          /\ returned' # NoReturn
          /\ emitted'.poll = poll_count
          /\ poll_count' = poll_count
          /\ pc' \in {"sleep", "done"}
          /\ polled' = polled
          /\ pc # "await_refresh" => emitted'.poll > last_poll]_vars

\* C12 witness: the third event of a lock epoch has been delivered after the
\* first and the second, and the loop sleeps before issuing the next poll.
C12_Witness ==
    /\ pc = "sleep"
    /\ emitted # NoEvent
    /\ emitted.poll = 3
    /\ epoch_polls = {1, 2, 3}

\* the three lock fields are all none, or all set and of one provider
LockWhole ==
    \/ /\ locked_lp_name = None
       /\ locked_quote = NoQuote
       /\ locked_lp_quote = NoQuote
    \/ /\ locked_lp_name # None
       /\ locked_quote # NoQuote
       /\ locked_lp_quote # NoQuote
       /\ locked_quote.lp_name = locked_lp_name
       /\ locked_lp_quote.lp_name = locked_lp_name

\* C13: wherever stream_quotes is suspended (sleep, fan-out in flight) and
\* whenever the handler has just been invoked, the three lock fields are all
\* none or all refer to the same provider; the handler is invoked with a set
\* lock and is told its provider.
C13_LockAtomic ==
    /\ pc \in AwaitPcs => LockWhole
    /\ emitted # NoEvent => /\ LockWhole
                            /\ locked_lp_name # None
                            /\ emitted.locked = locked_lp_name

\* C13 witness: the coroutine sleeps right after a competitor round switched
\* the lock away from the provider that won the initial poll.
C13_Witness ==
    /\ pc = "sleep"
    /\ emitted # NoEvent
    /\ emitted.improvement
    /\ emitted.poll = 2
    /\ emitted.quotes[Len(emitted.quotes)].lp_name # locked_lp_name
    /\ locked_lp_quote.lp_name = locked_lp_name

\* the providers called by the last aggregator call that returned a quote
Quoting == {n \in a_called : a_responses[n].kind = "quote"}

GetAllQuotesCalled == a_call # NoCall /\ a_call.op = "get_all_quotes"
GetQuotesExcludingCalled == a_call # NoCall /\ a_call.op = "get_quotes_excluding"

\* C14: get_all_quotes calls request_quote on every registered provider and
\* has an outcome for each of them; the returned list holds exactly one quote
\* for each provider that returned a quote, with that provider's price,
\* whatever the other providers did (raise, return none); the call raises
\* only for an unsupported pair with a quote in hand, never because a
\* provider failed.
C14_AllProvidersSettle ==
    GetAllQuotesCalled =>
        /\ a_called = NamesOf(a_lps)
        /\ DOMAIN a_responses = a_called
        /\ a_outcome.kind = "return" =>
               /\ {a_outcome.quotes[i].lp_name : i \in 1..Len(a_outcome.quotes)} = Quoting
               /\ Len(a_outcome.quotes) = Cardinality(Quoting)
               /\ \A i \in 1..Len(a_outcome.quotes) :
                      a_outcome.quotes[i].price
                          = a_responses[a_outcome.quotes[i].lp_name].price
        /\ a_outcome.kind = "raise" =>
               /\ Quoting # {}
               /\ PairSymbol(a_call.request) \notin DOMAIN SUPPORTED_PAIRS

\* C14 witness: the first registered provider raised, another one returned
\* a quote, and the call returned that quote.
C14_Witness ==
    /\ GetAllQuotesCalled
    /\ Len(a_lps) >= 2
    /\ a_responses[a_lps[1]].kind = "error"
    /\ a_responses[a_lps[2]].kind = "quote"
    /\ a_outcome.kind = "return"
    /\ Len(a_outcome.quotes) >= 1
    /\ a_outcome.best # NoQuote

\* C15: when no provider returned a usable quote (every called provider
\* raised or returned none, or none was called because none is registered or
\* the only ones registered are excluded), get_all_quotes and
\* get_quotes_excluding return the empty list and no best quote, and do not
\* raise, for supported and unsupported pairs alike.
C15_NoQuoteNoBest ==
    (a_call # NoCall /\ Quoting = {}) =>
        /\ a_outcome.kind = "return"
        /\ a_outcome.quotes = <<>>
        /\ a_outcome.best = NoQuote

\* C15 witness: get_all_quotes on two providers, one of which raised and the
\* other returned none, came back empty.
C15_Witness ==
    /\ GetAllQuotesCalled
    /\ Len(a_lps) = 2
    /\ a_responses[a_lps[1]].kind = "error"
    /\ a_responses[a_lps[2]].kind = "none"
    /\ a_outcome.kind = "return"
    /\ a_outcome.quotes = <<>>

\* C16: when at least one provider returned a quote (and the pair is
\* supported) the call returns a best quote; its provider price is the
\* minimum of the returned provider prices for BUY and the maximum for SELL,
\* and its lp_name / lp_price are those of one of the returned quotes.
C16_WinnerHasExtremePrice ==
    a_call # NoCall =>
        /\ (Quoting # {} /\ a_outcome.kind = "return") => a_outcome.best # NoQuote
        /\ (a_outcome.kind = "return" /\ a_outcome.best # NoQuote) =>
               /\ \A i \in 1..Len(a_outcome.quotes) :
                      IF a_call.request.side = "BUY"
                      THEN a_outcome.best.lp_price <= a_outcome.quotes[i].price
                      ELSE a_outcome.best.lp_price >= a_outcome.quotes[i].price
               /\ \E i \in 1..Len(a_outcome.quotes) :
                      /\ a_outcome.quotes[i].lp_name = a_outcome.best.lp_name
                      /\ a_outcome.quotes[i].price = a_outcome.best.lp_price

\* C16 witness: a SELL request answered with two different prices, won by
\* the provider with the higher one, which is not the first in the list.
C16_Witness ==
    /\ GetAllQuotesCalled
    /\ a_call.request.side = "SELL"
    /\ a_outcome.kind = "return"
    /\ Len(a_outcome.quotes) = 2
    /\ a_outcome.quotes[1].price < a_outcome.quotes[2].price
    /\ a_outcome.best.lp_name = a_outcome.quotes[2].lp_name
    /\ a_outcome.best.lp_price = a_outcome.quotes[2].price

\* C17: get_quotes_excluding(name, request) calls request_quote on exactly
\* the registered providers with another name, never on `name`; no returned
\* quote and no winner is of `name`; when no other provider is registered it
\* calls none and returns ([], none).
C17_ExcludedNeverCalled ==
    GetQuotesExcludingCalled =>
        /\ a_call.excluded \notin a_called
        /\ a_called = {a_lps[i] : i \in 1..Len(a_lps)} \ {a_call.excluded}
        /\ a_outcome.kind = "return" =>
               /\ \A i \in 1..Len(a_outcome.quotes) :
                      a_outcome.quotes[i].lp_name # a_call.excluded
               /\ a_outcome.best # NoQuote => a_outcome.best.lp_name # a_call.excluded
        /\ (\A i \in 1..Len(a_lps) : a_lps[i] = a_call.excluded) =>
               /\ a_called = {}
               /\ a_outcome.kind = "return"
               /\ a_outcome.quotes = <<>>
               /\ a_outcome.best = NoQuote

\* C17 witness: the excluded provider is the only registered one; no
\* provider was called and the call returned ([], none).
C17_Witness ==
    /\ GetQuotesExcludingCalled
    /\ Len(a_lps) = 1
    /\ a_lps[1] = a_call.excluded
    /\ a_called = {}
    /\ a_outcome.kind = "return"
    /\ a_outcome.quotes = <<>>

\* the client pays a premium on the provider price: (target = base, BUY) or
\* (target = quote, SELL); otherwise the client gets a discount
PremiumCase(req) ==
    \/ req.target_asset = req.base_asset /\ req.side = "BUY"
    \/ req.target_asset = req.quote_asset /\ req.side = "SELL"

ExampleRequest(target, side) ==
    [side |-> side, amount |-> 10000, base_asset |-> BaseAsset,
     quote_asset |-> QuoteAsset, target_asset |-> target]

\* C18: client_price = provider_price * (1 + markup_bps/10000) for
\* (target = base, BUY) and (target = quote, SELL), and provider_price *
\* (1 - markup_bps/10000) for (target = base, SELL) and (target = quote, BUY)
\* (prices times 10000 in the model); a provider price of 100000 with 5 bps
\* gives 100050 and 99950.
C18_MarkupMatrix ==
    /\ (a_call # NoCall /\ a_outcome.kind = "return" /\ a_outcome.best # NoQuote) =>
           /\ a_outcome.best.markup_bps = MarkupBps
           /\ a_outcome.best.client_price =
                  IF PremiumCase(a_call.request)
                  THEN a_outcome.best.lp_price * (10000 + a_outcome.best.markup_bps)
                  ELSE a_outcome.best.lp_price * (10000 - a_outcome.best.markup_bps)
    /\ ClientPrice(100000, ExampleRequest(BaseAsset, "BUY")) = 100050 * 10000
    /\ ClientPrice(100000, ExampleRequest(QuoteAsset, "SELL")) = 100050 * 10000
    /\ ClientPrice(100000, ExampleRequest(BaseAsset, "SELL")) = 99950 * 10000
    /\ ClientPrice(100000, ExampleRequest(QuoteAsset, "BUY")) = 99950 * 10000

\* C18 witness: a BUY of the quote asset priced at a discount on the
\* provider price (the inverted case).
C18_Witness ==
    /\ a_call # NoCall
    /\ a_call.request.side = "BUY"
    /\ a_call.request.target_asset = a_call.request.quote_asset
    /\ a_outcome.kind = "return"
    /\ a_outcome.best # NoQuote
    /\ a_outcome.best.lp_price = 10
    /\ a_outcome.best.client_price = 99950

\* The exact value of the leg of `req` in the target asset (the request
\* amount) and of the other leg at client price cp (times 10000), as
\* fractions num / den of 10^-6 of the asset.
TargetLegExact(req) == [num |-> req.amount, den |-> 1]
OtherLegExact(req, cp) ==
    IF req.target_asset = req.base_asset
    THEN [num |-> req.amount * cp, den |-> 10000]
    ELSE [num |-> req.amount * 10000, den |-> cp]

\* the client gives the target asset iff it sells it
GivesExact(req, cp) ==
    IF req.side = "SELL" THEN TargetLegExact(req) ELSE OtherLegExact(req, cp)
ReceivesExact(req, cp) ==
    IF req.side = "BUY" THEN TargetLegExact(req) ELSE OtherLegExact(req, cp)

\* 10^-d of an asset of BTCUSDT or ETHUSDT (5 decimals for BTC, 4 for ETH,
\* 2 for USDT), in 10^-6
PrecisionUnit(asset) ==
    CASE asset = "BTC" -> 10
      [] asset = "ETH" -> 100
      [] OTHER -> 10000

\* C19: in every AggregatedQuote, client_gives_amount is at least the exact
\* value of the leg the client gives and a multiple of 10^-d of the asset
\* given; client_receives_amount is at most the exact value of the leg the
\* client receives and a multiple of 10^-d of the asset received; a received
\* amount with more decimals than the asset has is cut, never rounded up
\* (0.012345 BTC at 5 decimals becomes 0.01234).
C19_AsymmetricRounding ==
    (a_call # NoCall /\ a_outcome.kind = "return" /\ a_outcome.best # NoQuote) =>
        LET q == a_outcome.best
            gives == GivesExact(a_call.request, q.client_price)
            receives == ReceivesExact(a_call.request, q.client_price)
        IN  /\ q.client_gives_amount * gives.den >= gives.num
            /\ q.client_gives_amount % PrecisionUnit(q.client_gives_asset) = 0
            /\ q.client_receives_amount * receives.den <= receives.num
            /\ q.client_receives_amount % PrecisionUnit(q.client_receives_asset) = 0
            /\ (a_call.request.side = "BUY" /\ a_call.request.target_asset = "BTC"
                    /\ a_call.request.amount = 12345)
                  => q.client_receives_amount = 12340

\* C19 witness: BUY 0.012345 BTC at provider price 10: the client receives
\* 0.01234 BTC (cut from 0.012345) and gives 0.13 USDT (raised from
\* 0.012345 * 10.005 = 0.1235117...).
C19_Witness ==
    /\ a_call # NoCall
    /\ a_call.request.side = "BUY"
    /\ a_call.request.target_asset = "BTC"
    /\ a_call.request.amount = 12345
    /\ a_outcome.kind = "return"
    /\ a_outcome.best # NoQuote
    /\ a_outcome.best.lp_price = 10
    /\ a_outcome.best.client_receives_amount = 12340
    /\ a_outcome.best.client_gives_amount = 130000

\* C20 (as claimed): for target = base and side = BUY, client_price is
\* provider_price * (1 + markup/10000) and client_receives_amount is the
\* request amount exactly.
C20_ReceivesEqualsAmount ==
    (/\ a_call # NoCall
     /\ a_call.request.side = "BUY"
     /\ a_call.request.target_asset = a_call.request.base_asset
     /\ a_outcome.kind = "return"
     /\ a_outcome.best # NoQuote) =>
        /\ a_outcome.best.client_price
               = a_outcome.best.lp_price * (10000 + a_outcome.best.markup_bps)
        /\ a_outcome.best.client_receives_amount = a_call.request.amount

\* an aggregator call handed back a best quote
Priced == a_call # NoCall /\ a_outcome.kind = "return" /\ a_outcome.best # NoQuote

\* `leg` is `exact` (a fraction) rounded to a neighbouring multiple of `unit`
WithinOneUnit(leg, exact, unit) ==
    /\ leg * exact.den <= exact.num + unit * exact.den
    /\ leg * exact.den >= exact.num - unit * exact.den

\* C21: in every AggregatedQuote the given and the received asset are the two
\* different assets of the pair; the client receives the target asset iff
\* the side is BUY and gives it iff the side is SELL; the leg in the target
\* asset is the request amount (at the asset's precision), whatever the
\* price; the other leg is amount * client_price for a base target and
\* amount / client_price for a quote target (at its asset's precision).
C21_ClientFlowsConsistent ==
    Priced =>
        LET q == a_outcome.best
            req == a_call.request
            target_leg == IF req.side = "BUY" THEN q.client_receives_amount
                                              ELSE q.client_gives_amount
            other_leg == IF req.side = "BUY" THEN q.client_gives_amount
                                             ELSE q.client_receives_amount
            other_asset == IF req.target_asset = req.base_asset
                           THEN req.quote_asset ELSE req.base_asset
        IN  /\ {q.client_gives_asset, q.client_receives_asset}
                   = {req.base_asset, req.quote_asset}
            /\ q.client_gives_asset # q.client_receives_asset
            /\ (q.client_receives_asset = req.target_asset) <=> (req.side = "BUY")
            /\ (q.client_gives_asset = req.target_asset) <=> (req.side = "SELL")
            /\ WithinOneUnit(target_leg, TargetLegExact(req),
                             PrecisionUnit(req.target_asset))
            /\ WithinOneUnit(other_leg, OtherLegExact(req, q.client_price),
                             PrecisionUnit(other_asset))

\* C21 witness: SELL 0.002001 USDT (the quote asset) at provider price 10:
\* the client gives USDT, 0.01 after rounding up, and receives BTC,
\* 0.002001 / 10.005 = 0.0002.
C21_Witness ==
    /\ Priced
    /\ a_call.request.side = "SELL"
    /\ a_call.request.target_asset = "USDT"
    /\ a_call.request.base_asset = "BTC"
    /\ a_call.request.amount = 2001
    /\ a_outcome.best.lp_price = 10
    /\ a_outcome.best.client_gives_asset = "USDT"
    /\ a_outcome.best.client_gives_amount = 10000
    /\ a_outcome.best.client_receives_asset = "BTC"
    /\ a_outcome.best.client_receives_amount = 200

\* C22: the validity of every AggregatedQuote is the validity of the winning
\* provider quote minus the buffer (2 s), but 3 s when that is less than
\* 3 s: it is never below 3 s.
C22_ClientValidityFloor ==
    Priced =>
        LET provider_validity == a_responses[a_outcome.best.lp_name].validity_seconds
        IN  /\ a_outcome.best.validity_seconds >= 3000
            /\ a_outcome.best.validity_seconds =
                   IF provider_validity - 2000 >= 3000
                   THEN provider_validity - 2000 ELSE 3000

\* C22 witness: the winning provider quote is valid for 1 s, less than the
\* buffer, and the client quote is valid for 3 s.
C22_Witness ==
    /\ Priced
    /\ a_responses[a_outcome.best.lp_name].validity_seconds = 1000
    /\ a_outcome.best.validity_seconds = 3000

\* C29: QuoteRequest(...) with a target_asset that is neither the base nor
\* the quote asset raises (ValueError, the code's invalid-request error) and
\* gives no object; with a target that is one of the two it gives the
\* object with the fields passed; so every request that exists, and every
\* request an aggregator call was made with, has its target among its two
\* assets.
C29_InvalidTargetRejected ==
    /\ a_request # NoCall =>
           IF a_request.args.target_asset
                  \in {a_request.args.base_asset, a_request.args.quote_asset}
           THEN a_request.result = [kind |-> "object", request |-> a_request.args]
           ELSE a_request.result = [kind |-> "raise", error |-> "ValueError"]
    /\ a_call # NoCall =>
           a_call.request.target_asset
               \in {a_call.request.base_asset, a_call.request.quote_asset}

\* C29 witness: QuoteRequest(base BTC, quote USDT, target SOL) raised.
C29_Witness ==
    /\ a_request # NoCall
    /\ a_request.args.base_asset = "BTC"
    /\ a_request.args.quote_asset = "USDT"
    /\ a_request.args.target_asset = "SOL"
    /\ a_request.result.kind = "raise"
    /\ a_call = NoCall

\* decimals and profit asset registered for the two supported pairs of the
\* requests (config/pairs.py)
RegisteredConfig(req) ==
    IF req.base_asset = "BTC"
    THEN [base_decimals |-> 5, quote_decimals |-> 2, profit_asset |-> "quote"]
    ELSE [base_decimals |-> 4, quote_decimals |-> 2, profit_asset |-> "quote"]

\* C30: when a provider quote is in hand, so that an AggregatedQuote is to
\* be created, a request on a pair without registered configuration
\* (SOLUSDT) makes the call raise (ValueError, the code's unsupported-pair
\* error) and no AggregatedQuote comes out; on a registered pair (BTCUSDT,
\* ETHUSDT) the quote carries the decimals and the profit asset registered
\* for that pair.
C30_UnsupportedPairRejected ==
    (a_call # NoCall /\ Quoting # {}) =>
        IF a_call.request.base_asset \in {"BTC", "ETH"}
        THEN /\ Priced
             /\ a_outcome.best.base_decimals = RegisteredConfig(a_call.request).base_decimals
             /\ a_outcome.best.quote_decimals = RegisteredConfig(a_call.request).quote_decimals
             /\ a_outcome.best.profit_asset = RegisteredConfig(a_call.request).profit_asset
        ELSE a_outcome = [kind |-> "raise", error |-> "ValueError"]

\* C30 witness: get_all_quotes for SOL/USDT with a provider quote in hand
\* raised.
C30_Witness ==
    /\ GetAllQuotesCalled
    /\ a_call.request.base_asset = "SOL"
    /\ Quoting # {}
    /\ a_outcome.kind = "raise"

\* a run of the pipeline of the three execution functions has been made
PipelineRun == p_run # NoCall

\* execute_quote is over and handed back a result dictionary
ResultReturned == x_pc = "done" /\ x_result.kind = "return"

\* C23: determine_hedge_params gives a result in each of the 8 combinations
\* of (target asset base / quote, side, profit asset): an exchange side, and
\* exactly one of quantity and quote_qty set to a number, the other none;
\* so it does for the quotes execute_quote hands to it.
C23_ExactlyOneHedgeAmount ==
    /\ PipelineRun =>
           /\ p_run.hedge.exchange_side \in {"BUY", "SELL"}
           /\ (p_run.hedge.quantity = NoAmount) # (p_run.hedge.quote_qty = NoAmount)
           /\ \A f \in {"quantity", "quote_qty"} :
                  p_run.hedge[f] # NoAmount =>
                      p_run.hedge[f].den > 0 /\ p_run.hedge[f].num >= 0
    /\ x_hedge # NoReturn =>
           (x_hedge.quantity = NoAmount) # (x_hedge.quote_qty = NoAmount)

\* C23 witness: SELL of the quote asset with profit kept in the base asset:
\* the hedge buys with quote_qty set and quantity none.
C23_Witness ==
    /\ PipelineRun
    /\ p_run.quote.side = "SELL"
    /\ p_run.quote.target_asset = p_run.pair_config.quote_asset
    /\ p_run.pair_config.profit_asset = "base"
    /\ p_run.hedge.exchange_side = "BUY"
    /\ p_run.hedge.quantity = NoAmount
    /\ p_run.hedge.quote_qty = [num |-> 1000, den |-> 1]

\* C24: in all 8 combinations calculate_pnl reports the gross P&L in the
\* base asset iff profit_asset is 'base' and in the quote asset iff it is
\* 'quote'; a SUCCESS result of execute_quote (registered pairs keep the
\* profit in the quote asset) reports it in the quote asset.
C24_PnlInProfitAsset ==
    /\ PipelineRun =>
           /\ (p_run.pnl.pnl_asset = p_run.pair_config.base_asset)
                  <=> (p_run.pair_config.profit_asset = "base")
           /\ (p_run.pnl.pnl_asset = p_run.pair_config.quote_asset)
                  <=> (p_run.pair_config.profit_asset = "quote")
    /\ (ResultReturned /\ x_result.result.status = "SUCCESS") =>
           x_result.result.pnl_asset = x_call.quote.quote_asset

\* C24 witness: SELL of the base asset with profit kept in the base asset:
\* the P&L is in BTC.
C24_Witness ==
    /\ PipelineRun
    /\ p_run.quote.side = "SELL"
    /\ p_run.quote.target_asset = "BTC"
    /\ p_run.quote.amount > 0
    /\ p_run.pair_config.profit_asset = "base"
    /\ p_run.pnl.pnl_asset = "BTC"

\* the commission calculate_pnl reads from the execution result
CommissionRead ==
    IF "commission" \in DOMAIN p_run.execution_result
    THEN p_run.execution_result.commission ELSE [num |-> 0, den |-> 1]

\* the leg of the quote of the pipeline run that is in the quote asset
NotionalQuote ==
    IF p_run.quote.client_gives_asset = p_run.quote.quote_asset
    THEN p_run.quote.client_gives_amount ELSE p_run.quote.client_receives_amount

\* C25: for every input of calculate_pnl, pnl_after_fees = pnl_amount -
\* commission, with commission 0 when the execution result has none, and
\* pnl_bps is 0 when the quote-currency notional is not positive.
C25_NetIsGrossMinusCommission ==
    PipelineRun =>
        /\ p_run.pnl.pnl_after_fees = FSub(p_run.pnl.pnl_amount, CommissionRead)
        /\ "commission" \notin DOMAIN p_run.execution_result =>
               p_run.pnl.pnl_after_fees = p_run.pnl.pnl_amount
        /\ NotionalQuote <= 0 => p_run.pnl.pnl_bps = [num |-> 0, den |-> 1]

\* C25 witness: a fill with a positive commission; the net P&L is the gross
\* P&L minus that commission, and less than the gross P&L.
C25_Witness ==
    /\ PipelineRun
    /\ "commission" \in DOMAIN p_run.execution_result
    /\ p_run.execution_result.commission.num > 0
    /\ p_run.pnl.pnl_after_fees
           = FSub(p_run.pnl.pnl_amount, p_run.execution_result.commission)
    /\ p_run.pnl.pnl_after_fees # p_run.pnl.pnl_amount
    /\ NotionalQuote > 0

\* C26 (as claimed): for each (side, target asset) on a pair that keeps its
\* profit where the registered pairs do, a positive request amount and a
\* markup larger than the commission rate of the simulator, the pipeline
\* determine_hedge_params -> execute_simulated_trade at the provider price
\* -> calculate_pnl gives pnl_after_fees > 0.
C26_PipelineProfitable ==
    (/\ PipelineRun
     /\ p_run.quote.amount > 0
     /\ p_run.pair_config.profit_asset = "quote"
     /\ "commission" \in DOMAIN p_run.execution_result
     /\ p_run.commission_bps.num < MarkupBps * p_run.commission_bps.den) =>
        p_run.pnl.pnl_after_fees.num > 0

\* lp.execute_trade returned true, so that the pipeline ran to its end
TradeSucceeded == x_trade = [kind |-> "return", value |-> TRUE]

\* C27 (as claimed): execute_quote always hands back a result dictionary: no
\* exception leaves it; the status is FAILED with a non-empty error message
\* whenever the pipeline was not completed, and SUCCESS, with error_message
\* none, only when it was.
C27_NoExceptionEscapes ==
    x_pc = "done" =>
        /\ x_result.kind = "return"
        /\ x_result.result.status \in {"SUCCESS", "FAILED"}
        /\ x_result.result.status = "SUCCESS" =>
               TradeSucceeded /\ x_result.result.error_message = None
        /\ x_result.result.status = "FAILED" =>
               x_result.result.error_message \notin {None, ""}
        /\ ~TradeSucceeded => x_result.result.status = "FAILED"

NotLog(step) == step # "log"

QuoteCreated == StreamStep /\ returned' # NoReturn /\ returned'.best # NoQuote

\* C31: any two AggregatedQuotes created by the aggregator have different
\* quote_ids: the quote created in a step of a session differs in its id from
\* the quote created by the step before it (kept or discarded) and from the
\* quote that is locked when it is created.
C31_QuoteIdsUnique ==
    [][QuoteCreated =>
          /\ (returned # NoReturn /\ returned.best # NoQuote)
                => returned'.best.quote_id # returned.best.quote_id
          /\ locked_quote # NoQuote
                => returned'.best.quote_id # locked_quote.quote_id]_vars

\* C32: when the competitor poll returns and the locked quote has no validity
\* left, the result of that round is discarded, even when it passes the
\* improvement threshold: the lock is unchanged and no event is emitted in
\* that step; the expiry handling follows (all providers are polled again
\* with auto_refresh, the stream ends without it).
C32_ExpiryBeforeImprovement ==
    [][(/\ pc = "await_competitors"
        /\ StreamStep
        /\ NoValidityLeft(locked_quote, now'))
          => (/\ LockUnchanged
              /\ emitted' = NoEvent
              /\ last_poll' = last_poll
              /\ IF auto_refresh
                 THEN /\ pc' = "await_refresh"
                      /\ polled' = LPNames
                      /\ poll_count' = 1
                 ELSE /\ pc' = "done"
                      /\ ~streaming')]_vars

\* C32 witness: the auto-refresh poll is in flight after a competitor round
\* whose best quote passed the threshold against the locked quote, found
\* expired on the re-check; the lock is still with the old provider.
C32_Witness ==
    /\ pc = "await_refresh"
    /\ returned # NoReturn
    /\ returned.best # NoQuote
    /\ returned.best.lp_name # locked_lp_name
    /\ PassesThreshold(returned.best, locked_quote, request.side,
                       improvement_threshold_bps)
    /\ NoValidityLeft(locked_quote, now)
    /\ locked_quote.client_price # returned.best.client_price
    /\ emitted = NoEvent

\* C33: the provider list of a competitor-round event is the competitor
\* quotes of that round (made in that round, by providers other than the
\* locked one) followed by one frozen quote: the raw quote of the provider
\* locked before the round, as it was stored when the lock was taken.  Without
\* improvement the stored quote stays; with improvement the stored quote
\* becomes the new provider's quote of this round, so the old one is in this
\* event only.  No provider has two quotes in the list.
C33_DisplayedQuotes ==
    [][CompetitorRound =>
          /\ emitted' # NoEvent
          /\ LET shown == emitted'.quotes
                 n == Len(shown)
             IN  /\ n = Len(returned'.quotes) + 1
                 /\ SubSeq(shown, 1, n - 1) = returned'.quotes
                 /\ \A i \in 1..(n - 1) :
                        /\ shown[i].timestamp = now'
                        /\ shown[i].lp_name \in LPNames \ {locked_lp_name}
                 /\ shown[n] = locked_lp_quote
                 /\ shown[n].lp_name = locked_lp_name
                 /\ shown[n].price = locked_quote.lp_price
                 /\ shown[n].timestamp = locked_quote.created_at
                 /\ \A i, j \in 1..n : i # j => shown[i].lp_name # shown[j].lp_name
                 /\ IF emitted'.improvement
                    THEN /\ locked_lp_quote'.timestamp = now'
                         /\ locked_lp_quote'.lp_name = locked_lp_name'
                         /\ locked_lp_quote'.lp_name # locked_lp_name
                         /\ \E i \in 1..(n - 1) : shown[i] = locked_lp_quote'
                    ELSE locked_lp_quote' = locked_lp_quote]_vars

\* C33 witness: an event without improvement whose frozen quote belongs to a
\* provider that took the lock in an earlier competitor round, next to a
\* quote just made by the provider that held the lock before.
C33_Witness ==
    /\ emitted # NoEvent
    /\ ~emitted.improvement
    /\ Len(emitted.quotes) >= 2
    /\ LET frozen == emitted.quotes[Len(emitted.quotes)]
       IN  /\ frozen.lp_name = locked_lp_name
           /\ \A d \in Delays : frozen.timestamp > d
           /\ frozen.timestamp < now
           /\ emitted.quotes[1].timestamp = now

\* C34: the table of determine_hedge_params.  The exchange side is BUY iff
\* the client receives the base asset, i.e. for (target = base, BUY) and
\* (target = quote, SELL), and SELL otherwise; quote_qty is set iff the
\* exchange side is BUY and the profit asset is 'base', and then it is
\* client_gives_amount; exchange BUY with profit 'quote': quantity =
\* client_receives_amount; exchange SELL with profit 'quote': quantity =
\* client_gives_amount; exchange SELL with profit 'base': quantity =
\* client_receives_amount / provider price.
C34_HedgeTable ==
    PipelineRun =>
        LET q == p_run.quote
            h == p_run.hedge
            profit == p_run.pair_config.profit_asset
            on_base == q.target_asset = q.base_asset
            receives_base == (on_base /\ q.side = "BUY") \/ (~on_base /\ q.side = "SELL")
            buys == h.exchange_side = "BUY"
        IN  /\ h.exchange_side = (IF receives_base THEN "BUY" ELSE "SELL")
            /\ receives_base = (q.client_receives_asset = q.base_asset)
            /\ (h.quote_qty # NoAmount) = (buys /\ profit = "base")
            /\ (buys /\ profit = "base") =>
                   h.quote_qty = [num |-> q.client_gives_amount, den |-> 1]
            /\ (buys /\ profit = "quote") =>
                   h.quantity = [num |-> q.client_receives_amount, den |-> 1]
            /\ (~buys /\ profit = "quote") =>
                   h.quantity = [num |-> q.client_gives_amount, den |-> 1]
            /\ (~buys /\ profit = "base") =>
                   /\ h.quantity # NoAmount
                   /\ h.quantity.num * q.lp_price = q.client_receives_amount * h.quantity.den

\* C34 witness: BUY of the quote asset with the profit kept in the base
\* asset: the hedge sells client_receives_amount / price of the base asset,
\* which is not a whole number of units.
C34_Witness ==
    /\ PipelineRun
    /\ p_run.quote.side = "BUY"
    /\ p_run.quote.target_asset = p_run.quote.quote_asset
    /\ p_run.pair_config.profit_asset = "base"
    /\ p_run.hedge.exchange_side = "SELL"
    /\ p_run.hedge.quote_qty = NoAmount
    /\ p_run.hedge.quantity.den > 1

\* C35: when the poll of an auto-refresh returns no usable quote, the session
\* ends in that step: stream_quotes returns (no exception), no update event
\* is emitted for the round, no further iteration starts and the streaming
\* flag is false.
C35_FailedRefreshEndsSession ==
    [][(/\ pc = "await_refresh"
        /\ StreamStep
        /\ returned'.best = NoQuote)
          => (/\ auto_refresh
              /\ pc' = "done"
              /\ ~streaming'
              /\ emitted' = NoEvent
              /\ last_poll' = last_poll
              /\ loop_count' = loop_count
              /\ LockUnchanged)]_vars

\* C35 witness: a session with auto_refresh that nobody stopped has ended
\* after at least two iterations on a refresh poll that returned nothing.
C35_Witness ==
    /\ pc = "done"
    /\ auto_refresh
    /\ ~stop_called
    /\ ~streaming
    /\ iter_done >= 2
    /\ returned # NoReturn
    /\ returned.quotes = <<>>
    /\ poll_count = 1
    /\ emitted = NoEvent

\* C36: a client quote never outlives the provider quote behind it: whenever
\* an update event offers the locked client quote with validity left
\* (time_remaining > 0), the locked raw provider quote is not expired, so the
\* provider would not reject an execute_trade for expiry at that moment.
C36_ClientQuoteWithinProviderQuote ==
    (/\ emitted # NoEvent
     /\ emitted.best = locked_quote
     /\ ~NoValidityLeft(locked_quote, now))
        => ~LPQuoteIsExpired(locked_lp_quote, now)

\* a step inside a lock epoch: the lock is set before and after it, and it
\* is not the return of an auto-refresh poll (which starts a new epoch)
WithinEpoch ==
    /\ locked_quote # NoQuote
    /\ locked_quote' # NoQuote
    /\ pc # "await_refresh"

\* C37: with a non-negative improvement threshold the locked client price
\* never gets worse inside a lock epoch: from one step to the next it does
\* not rise for BUY and does not fall for SELL, and the locked quote changes
\* only in a step that emits an event marked improvement=true carrying it.
C37_LockedPriceMonotone ==
    [][WithinEpoch =>
          /\ improvement_threshold_bps >= 0
          /\ request.side = "BUY" => locked_quote'.client_price <= locked_quote.client_price
          /\ request.side = "SELL" => locked_quote'.client_price >= locked_quote.client_price
          /\ locked_quote' # locked_quote =>
                 /\ emitted' # NoEvent
                 /\ emitted'.improvement
                 /\ emitted'.best = locked_quote']_vars

\* C37 witness: third event of an epoch of a SELL session: the lock went to a
\* provider at a higher price in an earlier competitor round, and the round
\* just ended kept the lock against a competitor quoting less.
C37_Witness ==
    /\ pc = "sleep"
    /\ request.side = "SELL"
    /\ emitted # NoEvent
    /\ ~emitted.improvement
    /\ epoch_polls = {1, 2, 3}
    /\ \A d \in Delays : locked_quote.created_at > d
    /\ Len(emitted.quotes) >= 2
    /\ emitted.quotes[1].price < locked_quote.lp_price

\* C38: in every update event the quote passed to the handler is the
\* streamer's locked quote and the provider name passed is that quote's
\* lp_name; get_locked_quote() and get_locked_lp_name() called from the
\* handler return these two values.
C38_HandlerSeesLock ==
    emitted # NoEvent =>
        /\ emitted.best = locked_quote
        /\ emitted.locked = locked_lp_name
        /\ emitted.locked = emitted.best.lp_name
        /\ GetLockedQuote = emitted.best
        /\ GetLockedLpName = emitted.locked

\* C38 witness: an event without improvement of a round in which a competitor
\* had quoted a different price: the handler got the locked quote, not the
\* competitor's.
C38_Witness ==
    /\ emitted # NoEvent
    /\ ~emitted.improvement
    /\ returned # NoReturn
    /\ returned.best # NoQuote
    /\ returned.best.client_price # locked_quote.client_price
    /\ emitted.best.lp_name = GetLockedLpName
    /\ emitted.best.lp_name # returned.best.lp_name

\* position of provider n in the aggregator's list
Registration(n) == CHOOSE i \in 1..Len(a_lps) : a_lps[i] = n

\* the providers of the last call whose quote has the extreme price of the
\* side (lowest for BUY, highest for SELL)
AtExtreme ==
    {n \in Quoting :
        \A m \in Quoting :
            IF a_call.request.side = "BUY"
            THEN a_responses[n].price <= a_responses[m].price
            ELSE a_responses[n].price >= a_responses[m].price}

\* C39: the best quote is the quote of the provider registered earliest among
\* those sharing the extreme price, and the returned list is in registration
\* order, whatever the order in which the concurrent provider calls
\* completed.
C39_TieBreakByRegistration ==
    Priced =>
        /\ a_outcome.best.lp_name \in AtExtreme
        /\ \A n \in AtExtreme :
               Registration(a_outcome.best.lp_name) <= Registration(n)
        /\ \A i, j \in 1..Len(a_outcome.quotes) :
               i < j => Registration(a_outcome.quotes[i].lp_name)
                            < Registration(a_outcome.quotes[j].lp_name)

\* C39 witness: two providers quoted the same price, the one registered
\* second completed first, and the one registered first is the winner.
C39_Witness ==
    /\ Priced
    /\ GetAllQuotesCalled
    /\ Len(a_lps) >= 2
    /\ a_lps[1] \in AtExtreme
    /\ a_lps[2] \in AtExtreme
    /\ a_call.completed[1] = a_lps[2]
    /\ a_outcome.best.lp_name = a_lps[1]
    /\ a_outcome.quotes[1].lp_name = a_lps[1]

\* C40: every call of stream_quotes resets the three lock fields to none
\* before its initial poll, also on an instance that holds the lock of an
\* earlier session; a session that aborts on its initial poll leaves them
\* none; a session that ends from inside the loop (stop, duration, expiry)
\* leaves the last lock of that session, which stays until the next call.
C40_CleanLockPerSession ==
    [][/\ (pc \in {"idle", "done"} /\ pc' = "await_initial")
          => (/\ locked_lp_name' = None
              /\ locked_quote' = NoQuote
              /\ locked_lp_quote' = NoQuote)
       /\ (pc = "await_initial" /\ StreamStep /\ returned'.best = NoQuote)
          => (/\ pc' = "done"
              /\ locked_lp_name' = None
              /\ locked_quote' = NoQuote
              /\ locked_lp_quote' = NoQuote)
       /\ (pc \in {"sleep", "await_competitors", "await_refresh"} /\ pc' = "done")
          => (/\ locked_quote' # NoQuote
              /\ locked_lp_name' = locked_quote'.lp_name
              /\ IF emitted' # NoEvent
                 THEN locked_quote' = emitted'.best
                 ELSE LockUnchanged)
       /\ (pc = "done" /\ pc' = "done") => LockUnchanged]_vars

\* C40 witness: on an instance used before (every behaviour of ReuseSpec
\* begins with the lock of an ended session), a session has aborted on its
\* initial poll and the lock fields are none.
C40_Witness ==
    /\ pc = "done"
    /\ iter_done = 0
    /\ ~stop_called
    /\ returned # NoReturn
    /\ returned.best = NoQuote
    /\ GetLockedQuote = NoQuote
    /\ GetLockedLpName = None

====
